---- MODULE Spec2Model ----
(***************************************************************************)
(* Reconciliation and aggregation engine of assignment_bot.                *)
(*                                                                         *)
(* The canonical store (class.db) is the record `db`; every operation of   *)
(* the program that opens a connection is one action working on a private  *)
(* copy of the store (the transaction) that is committed or rolled back as *)
(* the source does.  Rows are keyed by their unique external id (lms_id).  *)
(* Time stamps are integers: creation days of coursework lie in            *)
(* 0..MaxDay (0 is the '1970-01-01T00:00:00Z' default), the clock `now`    *)
(* starts after MaxDay and advances by one with every operation.           *)
(* Scores are integers, percentages are kept in hundredths.                *)
(***************************************************************************)
EXTENDS Integers, Sequences, FiniteSets, TLC

VARIABLES db, now, lastOp, pre, sync, conns, worker, ai, camp

vars == <<db, now, lastOp, pre, sync, conns, worker, ai, camp>>

\* ------------------------------------------------------------------ bounds
MaxDay == 2
SyncOps == 2
SummaryOps == 4

MetaOps == 2
PureOps == 1
FetchOps == 4
ConcOps == 1
StoredOps == 1
WorkerOps == 1
SetupOps == 2
ParseOps == 1
MaxRequests == 3
MaxJobs == 2
MaxAsg == 3

Courses == 1..2
Students == 1..2
AssignmentIds == 1..MaxAsg

\* ------------------------------------------------------------- primitives
Null == -1
NoRaw == <<>>

Put(f, k, v) == [x \in (DOMAIN f) \cup {k} |-> IF x = k THEN v ELSE f[x]]

Drop(f, K) == [x \in (DOMAIN f) \ K |-> f[x]]

Max2(a, b) == IF a >= b THEN a ELSE b

\* F applied to the value of v: v is evaluated once
With(v, F(_)) == F(v)

\* round(n / d) for n >= 0, d > 0
RoundDiv(n, d) == (2 * n + d) \div (2 * d)

\* round(points / max * 100, 2), in hundredths
Pct(points, max) == RoundDiv(points * 10000, max)

ALLOWED_STATUSES == {"Missing", "Submitted", "Late", "Graded", "Flagged"}

EmptyDb ==
  [schools |-> {}, courses |-> <<>>, students |-> <<>>, enrollments |-> {},
   assignments |-> <<>>, submissions |-> <<>>, summaries |-> <<>>,
   sync_log |-> <<>>]

Stats0 ==
  [courses_added |-> 0, courses_updated |-> 0, students_added |-> 0,
   students_updated |-> 0, enrollments_added |-> 0, assignments_added |-> 0,
   assignments_updated |-> 0, assignments_deleted |-> 0,
   submissions_added |-> 0, submissions_updated |-> 0,
   summaries_upserted |-> 0, sync_logs_added |-> 0]

\* a transaction: the connection's view of the store, the counters of the
\* pass and whether an exception has been raised
Tx(d, st, r) == [db |-> d, stats |-> st, raised |-> r]

Raise(tx) == [tx EXCEPT !.raised = TRUE]

IdStr(id) == ToString(id)

\* ------------------------------------------------ schema (database/schema.sql)
\* row inserted by the dirty-marking trigger when no summary exists
PlaceholderSummary ==
  [total_assigned |-> 0, total_submitted |-> 0, total_missing |-> 0,
   total_late |-> 0, total_graded |-> 0, avg_submitted_pct |-> Null,
   avg_all_pct |-> Null, points_earned |-> 0, points_possible |-> 0,
   needs_rebuild |-> 1, last_synced |-> Null]

\* trigger on submissions: mark the summary of (student, course) dirty
MarkDirty(d, s, c) ==
  [d EXCEPT !.summaries =
     IF <<s, c>> \in DOMAIN d.summaries
     THEN [d.summaries EXCEPT ![<<s, c>>].needs_rebuild = 1]
     ELSE Put(d.summaries, <<s, c>>, PlaceholderSummary)]

\* the trigger fires on a new row and on a change of status, grade or
\* verification
TriggerFires(old, new) ==
  \/ old.status # new.status
  \/ old.score_points # new.score_points
  \/ old.flag_verified # new.flag_verified

\* a schema whose submissions outlive their assignment
CascadeDelete_KeepsSubmissions(d, dead) ==
  [d EXCEPT !.assignments = Drop(d.assignments, dead)]

\* Submission -> Assignment foreign key: deleting assignments deletes
\* their submissions
CascadeDelete(d, dead) ==
  [d EXCEPT !.assignments = Drop(d.assignments, dead),
            !.submissions = Drop(d.submissions,
                                 {k \in DOMAIN d.submissions : k[2] \in dead})]

\* --------------------------------- sync_analysis_to_class_db.py (live feed)
NoSub == [state |-> "NONE", late |-> FALSE, assignedGrade |-> Null]

NoMetrics ==
  [given |-> FALSE, total_assignments |-> 0, missing |-> 0, late |-> 0,
   graded_count |-> 0, average_submitted |-> 0, average_all |-> 0]

_upsert_school(tx, school_name) ==
  [tx EXCEPT !.db.schools = @ \cup {school_name}]

_upsert_course(tx, c, name, school) ==
  IF c \notin DOMAIN tx.db.courses
  THEN [tx EXCEPT !.db.courses = Put(@, c, [name |-> name, school |-> school]),
                  !.stats.courses_added = @ + 1]
  ELSE IF tx.db.courses[c].name # name \/ tx.db.courses[c].school # school
       THEN [tx EXCEPT !.db.courses[c] = [name |-> name, school |-> school],
                       !.stats.courses_updated = @ + 1]
       ELSE tx

_upsert_student(tx, s, full_name) ==
  IF s \notin DOMAIN tx.db.students
  THEN [tx EXCEPT !.db.students = Put(@, s, full_name),
                  !.stats.students_added = @ + 1]
  ELSE IF tx.db.students[s] # full_name
       THEN [tx EXCEPT !.db.students[s] = full_name,
                       !.stats.students_updated = @ + 1]
       ELSE tx

\* an enrollment inserted without the look at the stored rows
_ensure_enrollment_AlwaysInserts(tx, s, c) ==
  [tx EXCEPT !.db.enrollments = @ \cup {<<s, c>>},
             !.stats.enrollments_added = @ + 1]

_ensure_enrollment(tx, s, c) ==
  IF <<s, c>> \in tx.db.enrollments
  THEN tx
  ELSE [tx EXCEPT !.db.enrollments = @ \cup {<<s, c>>},
                  !.stats.enrollments_added = @ + 1]

\* all coursework of a feed, in iteration order
RECURSIVE AllCoursework(_, _)
AllCoursework(feed, i) ==
  IF i > Len(feed) THEN <<>>
  ELSE feed[i].coursework \o AllCoursework(feed, i + 1)

CwTitle(cw) == IF cw.title = "" THEN IdStr(cw.id) ELSE cw.title

MergeLiveMeta(amap, cw) ==
  IF cw.id \notin DOMAIN amap
  THEN Put(amap, cw.id, [title |-> CwTitle(cw), created_at |-> cw.creationTime,
                         max_score |-> cw.maxPoints])
  ELSE LET ex == amap[cw.id] IN
       Put(amap, cw.id,
           [title |-> IF Len(CwTitle(cw)) > Len(ex.title)
                      THEN CwTitle(cw) ELSE ex.title,
            created_at |-> IF ex.created_at = Null /\ cw.creationTime # Null
                           THEN cw.creationTime ELSE ex.created_at,
            max_score |-> IF ex.max_score = Null /\ cw.maxPoints # Null
                          THEN cw.maxPoints ELSE ex.max_score])

RECURSIVE FoldLiveMeta(_, _, _)
FoldLiveMeta(amap, cws, i) ==
  IF i > Len(cws) THEN amap
  ELSE FoldLiveMeta(MergeLiveMeta(amap, cws[i]), cws, i + 1)

_build_assignment_map(feed) == FoldLiveMeta(<<>>, AllCoursework(feed, 1), 1)

\* an upsert that takes the creation date of every feed
LiveAssignmentRow_TakesFeedDate(d, course_id, a, meta) ==
  LET created == IF meta.created_at = Null THEN 0 ELSE meta.created_at IN
  IF a \notin DOMAIN d.assignments
  THEN [course |-> course_id, title |-> meta.title,
        max_score |-> meta.max_score, created_at |-> created, is_active |-> 1]
  ELSE LET row == d.assignments[a] IN
       [course |-> course_id,
        title |-> IF Len(meta.title) > Len(row.title)
                  THEN meta.title ELSE row.title,
        max_score |-> IF meta.max_score # Null /\ row.max_score # meta.max_score
                      THEN meta.max_score ELSE row.max_score,
        created_at |-> created,
        is_active |-> 1]

\* the row _upsert_assignments leaves for one lms_id
LiveAssignmentRow(d, course_id, a, meta) ==
  LET created == IF meta.created_at = Null THEN 0 ELSE meta.created_at IN
  IF a \notin DOMAIN d.assignments
  THEN [course |-> course_id, title |-> meta.title,
        max_score |-> meta.max_score, created_at |-> created, is_active |-> 1]
  ELSE LET row == d.assignments[a] IN
       [course |-> course_id,
        title |-> IF Len(meta.title) > Len(row.title)
                  THEN meta.title ELSE row.title,
        max_score |-> IF meta.max_score # Null /\ row.max_score # meta.max_score
                      THEN meta.max_score ELSE row.max_score,
        created_at |-> IF row.created_at = Null THEN created ELSE row.created_at,
        is_active |-> 1]

\* does _upsert_assignments count the row as updated
LiveAssignmentUpdated(d, course_id, a, meta) ==
  /\ a \in DOMAIN d.assignments
  /\ LET row == d.assignments[a] IN
       \/ row.course # course_id
       \/ Len(meta.title) > Len(row.title)
       \/ meta.max_score # Null /\ row.max_score # meta.max_score
       \/ row.created_at = Null

_upsert_assignments(tx, course_id, amap) ==
  LET d == tx.db
      ids == DOMAIN amap
      added == {a \in ids : a \notin DOMAIN d.assignments}
      updated == {a \in ids : LiveAssignmentUpdated(d, course_id, a, amap[a])}
  IN [tx EXCEPT
        !.db.assignments =
           [a \in (DOMAIN d.assignments) \cup ids |->
              IF a \in ids THEN LiveAssignmentRow(d, course_id, a, amap[a])
              ELSE d.assignments[a]],
        !.stats.assignments_added = @ + Cardinality(added),
        !.stats.assignments_updated = @ + Cardinality(updated)]

\* a WHERE clause without the date conditions
StaleAssignments_IgnoresWindow(d, course_id, active, start_date, end_date) ==
  {a \in DOMAIN d.assignments :
     /\ d.assignments[a].course = course_id
     /\ (active # {} => a \notin active)}

\* rows selected by the WHERE clause of _delete_stale_assignments
StaleAssignments(d, course_id, active, start_date, end_date) ==
  {a \in DOMAIN d.assignments :
     /\ d.assignments[a].course = course_id
     /\ (start_date # Null => d.assignments[a].created_at >= start_date)
     /\ (end_date # Null => d.assignments[a].created_at <= end_date)
     /\ (active # {} => a \notin active)}

_delete_stale_assignments(tx, course_id, active, start_date, end_date) ==
  LET dead == StaleAssignments(tx.db, course_id, active, start_date, end_date)
  IN [tx EXCEPT !.db = CascadeDelete(@, dead),
                !.stats.assignments_deleted = @ + Cardinality(dead)]

\* a derivation in which a grade of zero keeps the status of the lifecycle
_compute_submission_status_and_score_ZeroKeepsStatus(cw) ==
  LET sub == cw.submission
      max_points == cw.maxPoints
      score_max_default == IF max_points # Null /\ max_points # 0
                           THEN max_points ELSE Null
      status == IF sub.state \in {"NEW", "CREATED"} THEN "Missing"
                ELSE IF sub.late THEN "Late" ELSE "Submitted"
      grade == sub.assignedGrade
  IN IF sub.state = "NONE"
     THEN [status |-> "Missing", score_raw |-> NoRaw, score_points |-> Null,
           score_max |-> score_max_default, score_pct |-> Null]
     ELSE IF grade = Null
     THEN [status |-> status, score_raw |-> NoRaw, score_points |-> Null,
           score_max |-> score_max_default, score_pct |-> Null]
     ELSE IF grade = 0
     THEN [status |-> status, score_raw |-> NoRaw, score_points |-> Null,
           score_max |-> score_max_default, score_pct |-> Null]
     ELSE IF max_points = Null \/ max_points = 0
     THEN [status |-> status, score_raw |-> <<grade>>, score_points |-> grade,
           score_max |-> Null, score_pct |-> Null]
     ELSE [status |-> status, score_raw |-> <<grade, max_points>>,
           score_points |-> grade, score_max |-> max_points,
           score_pct |-> Pct(grade, max_points)]

_compute_submission_status_and_score(cw) ==
  LET sub == cw.submission
      max_points == cw.maxPoints
      score_max_default == IF max_points # Null /\ max_points # 0
                           THEN max_points ELSE Null
      status == IF sub.state \in {"NEW", "CREATED"} THEN "Missing"
                ELSE IF sub.late THEN "Late" ELSE "Submitted"
      grade == sub.assignedGrade
  IN IF sub.state = "NONE"
     THEN [status |-> "Missing", score_raw |-> NoRaw, score_points |-> Null,
           score_max |-> score_max_default, score_pct |-> Null]
     ELSE IF grade = Null
     THEN [status |-> status, score_raw |-> NoRaw, score_points |-> Null,
           score_max |-> score_max_default, score_pct |-> Null]
     ELSE IF grade = 0
     THEN [status |-> "Missing", score_raw |-> NoRaw, score_points |-> Null,
           score_max |-> score_max_default, score_pct |-> Null]
     ELSE IF max_points = Null \/ max_points = 0
     THEN [status |-> status, score_raw |-> <<grade>>, score_points |-> grade,
           score_max |-> Null, score_pct |-> Null]
     ELSE [status |-> status, score_raw |-> <<grade, max_points>>,
           score_points |-> grade, score_max |-> max_points,
           score_pct |-> Pct(grade, max_points)]

\* a freshly inserted submissions row (flag columns and updated_at at their
\* column defaults)
NewSubmission(p, t) ==
  [status |-> p.status, score_raw |-> p.score_raw,
   score_points |-> p.score_points, score_max |-> p.score_max,
   score_pct |-> p.score_pct, updated_at |-> t,
   flagged_by_student |-> 0, flag_verified |-> 0]

\* UPDATE submissions SET status, score_*, updated_at
UpdatedSubmission(row, p, t) ==
  [row EXCEPT !.status = p.status, !.score_raw = p.score_raw,
              !.score_points = p.score_points, !.score_max = p.score_max,
              !.score_pct = p.score_pct, !.updated_at = t]

PayloadDiffers(row, p) ==
  \/ row.status # p.status
  \/ row.score_raw # p.score_raw
  \/ row.score_points # p.score_points
  \/ row.score_max # p.score_max
  \/ row.score_pct # p.score_pct

\* INSERT or UPDATE of one submissions row, with the foreign key check and
\* the trigger of the schema
WriteSubmission(tx, s, a, p, t) ==
  IF a \notin DOMAIN tx.db.assignments \/ s \notin DOMAIN tx.db.students
  THEN Raise(tx)
  ELSE LET c == tx.db.assignments[a].course IN
       IF <<s, a>> \notin DOMAIN tx.db.submissions
       THEN [tx EXCEPT
               !.db = MarkDirty([@ EXCEPT !.submissions =
                                   Put(@, <<s, a>>, NewSubmission(p, t))], s, c),
               !.stats.submissions_added = @ + 1]
       ELSE LET old == tx.db.submissions[<<s, a>>]
                new == UpdatedSubmission(old, p, t)
                d1 == [tx.db EXCEPT !.submissions[<<s, a>>] = new]
            IN [tx EXCEPT
                  !.db = IF TriggerFires(old, new) THEN MarkDirty(d1, s, c) ELSE d1,
                  !.stats.submissions_updated = @ + 1]

_upsert_submission(tx, s, a, p, t) ==
  IF p.status \notin ALLOWED_STATUSES THEN Raise(tx)
  ELSE IF <<s, a>> \in DOMAIN tx.db.submissions
          /\ ~PayloadDiffers(tx.db.submissions[<<s, a>>], p)
       THEN tx
       ELSE WriteSubmission(tx, s, a, p, t)

RECURSIVE LiveSubmissions(_, _, _, _, _)
LiveSubmissions(tx, s, cws, i, t) ==
  IF i > Len(cws) \/ tx.raised THEN tx
  ELSE LiveSubmissions(
         _upsert_submission(tx, s, cws[i].id,
                            _compute_submission_status_and_score(cws[i]), t),
         s, cws, i + 1, t)

\* points summed by _upsert_course_summary over the graded coursework
Counted(cw) ==
  /\ cw.submission.state # "NONE"
  /\ cw.maxPoints # Null
  /\ cw.submission.assignedGrade # Null
  /\ cw.submission.assignedGrade > 0

RECURSIVE SumEarned(_, _)
SumEarned(cws, i) ==
  IF i > Len(cws) THEN 0
  ELSE (IF Counted(cws[i]) THEN cws[i].submission.assignedGrade ELSE 0)
       + SumEarned(cws, i + 1)

RECURSIVE SumPossible(_, _)
SumPossible(cws, i) ==
  IF i > Len(cws) THEN 0
  ELSE (IF Counted(cws[i]) THEN cws[i].maxPoints ELSE 0)
       + SumPossible(cws, i + 1)

\* an upsert that also writes needs_rebuild = 0
WriteSummary_ClearsDirty(d, s, c, totals, t) ==
  [d EXCEPT !.summaries =
     Put(@, <<s, c>>,
         [total_assigned |-> totals.total_assigned,
          total_submitted |-> totals.total_submitted,
          total_missing |-> totals.total_missing,
          total_late |-> totals.total_late,
          total_graded |-> totals.total_graded,
          avg_submitted_pct |-> totals.avg_submitted_pct,
          avg_all_pct |-> totals.avg_all_pct,
          points_earned |-> totals.points_earned,
          points_possible |-> totals.points_possible,
          needs_rebuild |-> 0, last_synced |-> t])]

\* INSERT ... ON CONFLICT DO UPDATE of course_summaries: needs_rebuild is
\* not in the column list, so a new row takes the column default (1) and
\* an existing row keeps its value
WriteSummary(d, s, c, totals, t) ==
  LET nr == IF <<s, c>> \in DOMAIN d.summaries
            THEN d.summaries[<<s, c>>].needs_rebuild ELSE 1
  IN [d EXCEPT !.summaries =
        Put(@, <<s, c>>,
            [total_assigned |-> totals.total_assigned,
             total_submitted |-> totals.total_submitted,
             total_missing |-> totals.total_missing,
             total_late |-> totals.total_late,
             total_graded |-> totals.total_graded,
             avg_submitted_pct |-> totals.avg_submitted_pct,
             avg_all_pct |-> totals.avg_all_pct,
             points_earned |-> totals.points_earned,
             points_possible |-> totals.points_possible,
             needs_rebuild |-> nr, last_synced |-> t])]

_upsert_course_summary(tx, s, c, metrics, cws, t) ==
  LET total_assigned == IF metrics.given THEN metrics.total_assignments
                        ELSE Len(cws)
      total_missing == IF metrics.given THEN metrics.missing ELSE 0
      totals ==
        [total_assigned |-> total_assigned,
         total_submitted |-> Max2(total_assigned - total_missing, 0),
         total_missing |-> total_missing,
         total_late |-> IF metrics.given THEN metrics.late ELSE 0,
         total_graded |-> IF metrics.given THEN metrics.graded_count ELSE 0,
         avg_submitted_pct |-> IF metrics.given THEN metrics.average_submitted
                               ELSE 0,
         avg_all_pct |-> IF metrics.given THEN metrics.average_all ELSE 0,
         points_earned |-> SumEarned(cws, 1),
         points_possible |-> SumPossible(cws, 1)]
  IN [tx EXCEPT !.db = WriteSummary(@, s, c, totals, t),
                !.stats.summaries_upserted = @ + 1]

\* one iteration of the student loop of sync_course_analysis_to_db; a
\* record without its "student" key raises KeyError before any write
LiveStudent(tx, e, course_id, t) ==
  IF ~e.ok THEN Raise(tx)
  ELSE LET name == IF e.name = "" THEN IdStr(e.sid) ELSE e.name
           tx1 == _ensure_enrollment(_upsert_student(tx, e.sid, name),
                                     e.sid, course_id)
       IN With(LiveSubmissions(tx1, e.sid, e.coursework, 1, t),
               LAMBDA tx2 :
                 IF tx2.raised THEN tx2
                 ELSE _upsert_course_summary(tx2, e.sid, course_id, e.metrics,
                                             e.coursework, t))

RECURSIVE LiveStudents(_, _, _, _, _)
LiveStudents(tx, feed, i, course_id, t) ==
  IF i > Len(feed) \/ tx.raised THEN tx
  ELSE LiveStudents(LiveStudent(tx, feed[i], course_id, t),
                    feed, i + 1, course_id, t)

\* an audit row that counts the assignments of the pass
InsertSyncLog_CountsAssignments(tx, course_id, source) ==
  [tx EXCEPT !.db.sync_log =
               Append(@, [course |-> course_id, source |-> source,
                          rows_added |-> tx.stats.assignments_added,
                          rows_updated |-> tx.stats.assignments_updated]),
             !.stats.sync_logs_added = @ + 1]

InsertSyncLog(tx, course_id, source) ==
  [tx EXCEPT !.db.sync_log =
               Append(@, [course |-> course_id, source |-> source,
                          rows_added |-> tx.stats.submissions_added,
                          rows_updated |-> tx.stats.submissions_updated]),
             !.stats.sync_logs_added = @ + 1]

\* active_assignment_lms_ids = None
NoActive == [given |-> FALSE, ids |-> {}]

\* the body of the try block of sync_course_analysis_to_db
LiveBody(d, course, feed, school_name, start_date, end_date, active, t) ==
  LET tx0 == _upsert_course(_upsert_school(Tx(d, Stats0, FALSE), school_name),
                            course.id, course.name, school_name)
      amap == _build_assignment_map(feed)
      tx1 == _upsert_assignments(tx0, course.id, amap)
      ids == IF active.given THEN active.ids ELSE DOMAIN amap
      tx2 == _delete_stale_assignments(
               tx1, course.id, ids,
               IF active.given THEN Null ELSE start_date,
               IF active.given THEN Null ELSE end_date)
  IN With(LiveStudents(tx2, feed, 1, course.id, t),
          LAMBDA tx3 :
            IF tx3.raised THEN tx3 ELSE InsertSyncLog(tx3, course.id, "live"))

\* a pass whose except branch commits what the try block has written
sync_course_analysis_to_db_NoRollback(d, course, feed, school_name, dry_run, start_date, end_date, active, t) ==
  IF feed = <<>>
  THEN [db |-> d, stats |-> Stats0, raised |-> FALSE, committed |-> FALSE]
  ELSE With(LiveBody(d, course, feed, school_name, start_date, end_date,
                     active, t),
            LAMBDA tx :
              IF tx.raised
              THEN [db |-> tx.db, stats |-> tx.stats, raised |-> TRUE,
                    committed |-> FALSE]
              ELSE IF dry_run
              THEN [db |-> d, stats |-> tx.stats, raised |-> FALSE,
                    committed |-> FALSE]
              ELSE [db |-> tx.db, stats |-> tx.stats, raised |-> FALSE,
                    committed |-> TRUE])

\* sync_course_analysis_to_db: the store it leaves, its counters and
\* whether it raised
sync_course_analysis_to_db(d, course, feed, school_name, dry_run, start_date, end_date, active, t) ==
  IF feed = <<>>
  THEN [db |-> d, stats |-> Stats0, raised |-> FALSE, committed |-> FALSE]
  ELSE With(LiveBody(d, course, feed, school_name, start_date, end_date,
                     active, t),
            LAMBDA tx :
              IF tx.raised
              THEN [db |-> d, stats |-> tx.stats, raised |-> TRUE,
                    committed |-> FALSE]
              ELSE IF dry_run
              THEN [db |-> d, stats |-> tx.stats, raised |-> FALSE,
                    committed |-> FALSE]
              ELSE [db |-> tx.db, stats |-> tx.stats, raised |-> FALSE,
                    committed |-> TRUE])

\* ------------------------------ sync_reports_to_class_db.py (report text)
\* a score token that is not a number
Bad == -2

\* parse_score: a token is <<>> (no score), <<p, m>> for "p/m", or any
\* other sequence of fields
parse_score(raw) ==
  IF raw = NoRaw \/ Len(raw) # 2
  THEN [points |-> Null, max |-> Null, pct |-> Null]
  ELSE IF raw[1] = Bad \/ raw[2] = Bad
  THEN [points |-> Null, max |-> Null, pct |-> Null]
  ELSE [points |-> raw[1], max |-> raw[2],
        pct |-> IF raw[2] # 0 THEN Pct(raw[1], raw[2]) ELSE Null]

\* parse_assignment_line on the five fields of a row; Null when the row is
\* skipped
parse_assignment_line(line) ==
  IF line.lms_id = Bad \/ line.status \notin ALLOWED_STATUSES
  THEN [skipped |-> TRUE]
  ELSE LET sc == parse_score(line.score) IN
       [skipped |-> FALSE, lms_id |-> line.lms_id, title |-> line.title,
        status |-> line.status, score_raw |-> line.score,
        score_points |-> sc.points, score_max |-> sc.max,
        score_pct |-> sc.pct, created_at |-> line.created_at]

RECURSIVE ParsedRows(_, _)
ParsedRows(lines, i) ==
  IF i > Len(lines) THEN <<>>
  ELSE LET r == parse_assignment_line(lines[i]) IN
       (IF r.skipped THEN <<>> ELSE <<r>>) \o ParsedRows(lines, i + 1)

\* parse_student_block: the StudentRecord of one block
parse_student_block(block) ==
  [lms_id |-> block.sid, full_name |-> block.name, ok |-> block.ok,
   assignments |-> ParsedRows(block.lines, 1), metrics |-> block.metrics]

\* a merge in which the title written last wins
pick_title_LastWins(existing, candidate) ==
  IF candidate = "" THEN existing ELSE candidate

pick_title(existing, candidate) ==
  IF candidate = "" THEN existing
  ELSE IF existing = "" THEN candidate
  ELSE IF Len(candidate) > Len(existing) THEN candidate
  ELSE existing

MergeReportMeta(amap, a) ==
  IF a.lms_id \notin DOMAIN amap
  THEN Put(amap, a.lms_id, [title |-> a.title, max_score |-> a.score_max,
                            created_at |-> a.created_at])
  ELSE LET ex == amap[a.lms_id] IN
       Put(amap, a.lms_id,
           [title |-> pick_title(ex.title, a.title),
            max_score |-> IF ex.max_score = Null /\ a.score_max # Null
                          THEN a.score_max
                          ELSE IF ex.max_score # Null /\ a.score_max # Null
                                  /\ a.score_max > ex.max_score
                          THEN a.score_max ELSE ex.max_score,
            created_at |-> IF ex.created_at = Null /\ a.created_at # Null
                           THEN a.created_at ELSE ex.created_at])

RECURSIVE AllRecords(_, _)
AllRecords(students, i) ==
  IF i > Len(students) THEN <<>>
  ELSE students[i].assignments \o AllRecords(students, i + 1)

RECURSIVE FoldReportMeta(_, _, _)
FoldReportMeta(amap, recs, i) ==
  IF i > Len(recs) THEN amap
  ELSE FoldReportMeta(MergeReportMeta(amap, recs[i]), recs, i + 1)

aggregate_assignments(students) ==
  FoldReportMeta(<<>>, AllRecords(students, 1), 1)

ReportAssignmentRow(d, course_id, a, meta) ==
  LET created == IF meta.created_at = Null THEN 0 ELSE meta.created_at IN
  IF a \notin DOMAIN d.assignments
  THEN [course |-> course_id, title |-> meta.title,
        max_score |-> meta.max_score, created_at |-> created, is_active |-> 1]
  ELSE LET row == d.assignments[a] IN
       [course |-> course_id,
        title |-> pick_title(row.title, meta.title),
        max_score |-> IF meta.max_score # Null /\ row.max_score # meta.max_score
                      THEN meta.max_score ELSE row.max_score,
        created_at |-> IF row.created_at = Null THEN created ELSE row.created_at,
        is_active |-> 1]

ReportAssignmentUpdated(d, course_id, a, meta) ==
  /\ a \in DOMAIN d.assignments
  /\ LET row == d.assignments[a] IN
       \/ pick_title(row.title, meta.title) # row.title
       \/ meta.max_score # Null /\ row.max_score # meta.max_score
       \/ row.created_at = Null
       \/ row.course # course_id

upsert_assignments(tx, course_id, amap) ==
  LET d == tx.db
      ids == DOMAIN amap
      added == {a \in ids : a \notin DOMAIN d.assignments}
      updated == {a \in ids : ReportAssignmentUpdated(d, course_id, a, amap[a])}
  IN [tx EXCEPT
        !.db.assignments =
           [a \in (DOMAIN d.assignments) \cup ids |->
              IF a \in ids THEN ReportAssignmentRow(d, course_id, a, amap[a])
              ELSE d.assignments[a]],
        !.stats.assignments_added = @ + Cardinality(added),
        !.stats.assignments_updated = @ + Cardinality(updated)]

\* the values upsert_submission writes for one AssignmentRecord
ReportPayload(a, assignment_max_score) ==
  LET emax == IF a.score_max # Null THEN a.score_max ELSE assignment_max_score
      epct == IF a.score_pct = Null /\ a.score_points # Null
                 /\ emax # Null /\ emax # 0
              THEN Pct(a.score_points, emax) ELSE a.score_pct
  IN [status |-> a.status, score_raw |-> a.score_raw,
      score_points |-> a.score_points, score_max |-> emax, score_pct |-> epct]

upsert_submission(tx, s, a, p, t) ==
  IF <<s, a>> \in DOMAIN tx.db.submissions
     /\ ~PayloadDiffers(tx.db.submissions[<<s, a>>], p)
  THEN tx
  ELSE WriteSubmission(tx, s, a, p, t)

RECURSIVE ReportSubmissions(_, _, _, _, _, _)
ReportSubmissions(tx, s, recs, i, amap, t) ==
  IF i > Len(recs) \/ tx.raised THEN tx
  ELSE ReportSubmissions(
         upsert_submission(tx, s, recs[i].lms_id,
                           ReportPayload(recs[i], amap[recs[i].lms_id].max_score), t),
         s, recs, i + 1, amap, t)

RECURSIVE SumSeq(_, _)
SumSeq(xs, i) == IF i > Len(xs) THEN 0 ELSE xs[i] + SumSeq(xs, i + 1)

CountRecs(recs, P(_)) == Cardinality({i \in 1..Len(recs) : P(recs[i])})

SumRecs(recs, F(_)) == SumSeq([i \in 1..Len(recs) |-> F(recs[i])], 1)

derive_summary_fallback(student) ==
  LET recs == student.assignments
      m == student.metrics
      IsMissing(a) == a.status = "Missing"
      IsLate(a) == a.status = "Late"
      HasPct(a) == a.score_pct # Null
      NotMissing(a) == a.status # "Missing"
      Points(a) == IF a.score_points # Null THEN a.score_points ELSE 0
      MaxOf(a) == IF a.score_max # Null THEN a.score_max ELSE 0
      earned == IF m.given THEN m.points_earned ELSE SumRecs(recs, Points)
      possible == IF m.given THEN m.points_possible ELSE SumRecs(recs, MaxOf)
      avg_sub == IF m.given THEN m.avg_submitted_pct
                 ELSE IF possible # 0 THEN Pct(earned, possible) ELSE 0
  IN [total_assigned |-> IF m.given THEN m.total_assigned ELSE Len(recs),
      total_submitted |-> CountRecs(recs, NotMissing),
      total_missing |-> IF m.given THEN m.total_missing
                        ELSE CountRecs(recs, IsMissing),
      total_late |-> IF m.given THEN m.total_late ELSE CountRecs(recs, IsLate),
      total_graded |-> IF m.given THEN m.total_graded
                       ELSE CountRecs(recs, HasPct),
      avg_submitted_pct |-> avg_sub,
      avg_all_pct |-> IF m.given THEN m.avg_all_pct ELSE avg_sub,
      points_earned |-> earned, points_possible |-> possible]

upsert_course_summary(tx, s, c, student, t) ==
  [tx EXCEPT !.db = WriteSummary(@, s, c, derive_summary_fallback(student), t),
             !.stats.summaries_upserted = @ + 1]

\* one iteration of the student loop of sync_course_report; a statement
\* that fails (sqlite3.Error) raises before the student's rows are written
ReportStudent(tx, student, course_id, amap, t) ==
  IF ~student.ok THEN Raise(tx)
  ELSE LET tx1 == _ensure_enrollment(
                    _upsert_student(tx, student.lms_id, student.full_name),
                    student.lms_id, course_id)
       IN With(ReportSubmissions(tx1, student.lms_id, student.assignments,
                                 1, amap, t),
               LAMBDA tx2 :
                 IF tx2.raised THEN tx2
                 ELSE upsert_course_summary(tx2, student.lms_id, course_id,
                                            student, t))

RECURSIVE ReportStudents(_, _, _, _, _, _)
ReportStudents(tx, students, i, course_id, amap, t) ==
  IF i > Len(students) \/ tx.raised THEN tx
  ELSE ReportStudents(ReportStudent(tx, students[i], course_id, amap, t),
                      students, i + 1, course_id, amap, t)

\* sync_course_report on the open connection; the counters are those of
\* this course
sync_course_report(d, report, school_name, t) ==
  LET tx0 == _upsert_course(_upsert_school(Tx(d, Stats0, FALSE), school_name),
                            report.course_lms_id, report.course_name,
                            school_name)
      amap == aggregate_assignments(report.students)
      tx1 == upsert_assignments(tx0, report.course_lms_id, amap)
  IN With(ReportStudents(tx1, report.students, 1, report.course_lms_id,
                         amap, t),
          LAMBDA tx2 :
            IF tx2.raised THEN tx2
            ELSE InsertSyncLog(tx2, report.course_lms_id, "report"))

AddStats(x, y) == [k \in DOMAIN x |-> x[k] + y[k]]

\* the loop of sync_reports: every report runs on the one connection
RECURSIVE ReportLoop(_, _, _, _, _)
ReportLoop(tx, reports, i, school_name, t) ==
  IF i > Len(reports) \/ tx.raised THEN tx
  ELSE With(sync_course_report(tx.db, reports[i], school_name, t),
            LAMBDA r :
              ReportLoop(Tx(r.db, AddStats(tx.stats, r.stats), r.raised),
                         reports, i + 1, school_name, t))

\* a batch that commits whether or not dry_run is set
sync_reports_DryRunCommits(d, reports, school_name, dry_run, t) ==
  With(ReportLoop(Tx(d, Stats0, FALSE), reports, 1, school_name, t),
       LAMBDA tx :
         IF tx.raised
         THEN [db |-> d, stats |-> tx.stats, raised |-> TRUE,
               committed |-> FALSE]
         ELSE [db |-> tx.db, stats |-> tx.stats, raised |-> FALSE,
               committed |-> ~dry_run])

sync_reports(d, reports, school_name, dry_run, t) ==
  With(ReportLoop(Tx(d, Stats0, FALSE), reports, 1, school_name, t),
       LAMBDA tx :
         IF tx.raised
         THEN [db |-> d, stats |-> tx.stats, raised |-> TRUE,
               committed |-> FALSE]
         ELSE IF dry_run
         THEN [db |-> d, stats |-> tx.stats, raised |-> FALSE,
               committed |-> FALSE]
         ELSE [db |-> tx.db, stats |-> tx.stats, raised |-> FALSE,
               committed |-> TRUE])


\* ----------------------------------------------------------- database/db.py
CourseAssignments(d, c) ==
  {a \in DOMAIN d.assignments : d.assignments[a].course = c}

\* SELECT MAX(s2.score_max) FROM submissions s2 WHERE s2.assignment_id = a
MaxScoreMax(d, a) ==
  LET vals == {d.submissions[k].score_max :
                 k \in {k \in DOMAIN d.submissions :
                          k[2] = a /\ d.submissions[k].score_max # Null}}
  IN IF vals = {} THEN Null ELSE CHOOSE v \in vals : \A w \in vals : w <= v

\* possible points without the look at the submissions
PossiblePoints_OwnMaxOnly(d, a) ==
  IF d.assignments[a].max_score # Null THEN d.assignments[a].max_score ELSE 0

\* COALESCE(a.max_score, MAX(score_max), 0)
PossiblePoints(d, a) ==
  IF d.assignments[a].max_score # Null THEN d.assignments[a].max_score
  ELSE IF MaxScoreMax(d, a) # Null THEN MaxScoreMax(d, a) ELSE 0

\* the LEFT JOIN row of student_rows; status "NULL" when there is no
\* submissions row
StudentRow(d, s, a) ==
  IF <<s, a>> \in DOMAIN d.submissions
  THEN [status |-> d.submissions[<<s, a>>].status,
        score_points |-> d.submissions[<<s, a>>].score_points,
        score_pct |-> d.submissions[<<s, a>>].score_pct]
  ELSE [status |-> "NULL", score_points |-> Null, score_pct |-> Null]

EffectivelySubmitted(r) ==
  r.status # "NULL" /\ r.status # "Missing"
  /\ r.score_points # Null /\ r.score_points # 0

\* counting that overlooks the stored status Missing
EffectivelyMissing_IgnoresStatus(r) ==
  \/ r.status = "NULL"
  \/ r.score_points = 0
  \/ r.status \in {"Submitted", "Late", "Graded"} /\ r.score_points = Null

EffectivelyMissing(r) ==
  \/ r.status = "NULL"
  \/ r.status = "Missing"
  \/ r.score_points = 0
  \/ r.status \in {"Submitted", "Late", "Graded"} /\ r.score_points = Null

CountedLate(r) ==
  r.status = "Late" /\ r.score_points # Null /\ r.score_points # 0

CountedGraded(r) ==
  r.score_pct # Null /\ r.score_points # Null /\ r.score_points # 0

SumOver(S, F(_)) ==
  SumSeq([i \in 1..MaxAsg |-> IF i \in S THEN F(i) ELSE 0], 1)

\* the aggregate row computed by the SELECT of rebuild_summary; the SUMs
\* of an empty course are NULL
Aggregate(d, s, c) ==
  LET A == CourseAssignments(d, c)
      R(a) == StudentRow(d, s, a)
      Earned(a) == IF R(a).score_points # Null THEN R(a).score_points ELSE 0
      Possible(a) == PossiblePoints(d, a)
      G == {a \in A : CountedGraded(R(a))}
      PctOf(a) == R(a).score_pct
      earned == SumOver(A, Earned)
      possible == SumOver(A, Possible)
  IN IF A = {}
     THEN [total_assigned |-> 0, total_submitted |-> Null,
           total_missing |-> Null, total_late |-> Null, total_graded |-> Null,
           avg_submitted_pct |-> Null, avg_all_pct |-> Null,
           points_earned |-> Null, points_possible |-> Null]
     ELSE [total_assigned |-> Cardinality(A),
           total_submitted |-> Cardinality({a \in A : EffectivelySubmitted(R(a))}),
           total_missing |-> Cardinality({a \in A : EffectivelyMissing(R(a))}),
           total_late |-> Cardinality({a \in A : CountedLate(R(a))}),
           total_graded |-> Cardinality(G),
           avg_submitted_pct |-> IF G = {} THEN Null
                                 ELSE RoundDiv(SumOver(G, PctOf), Cardinality(G)),
           avg_all_pct |-> IF possible = 0 THEN Null
                           ELSE RoundDiv(earned * 10000, possible),
           points_earned |-> earned, points_possible |-> possible]

\* the INSERT ... ON CONFLICT of rebuild_summary: needs_rebuild = 0
StoreRebuilt(d, s, c, totals, t) ==
  [d EXCEPT !.summaries =
     Put(@, <<s, c>>,
         [total_assigned |-> totals.total_assigned,
          total_submitted |-> totals.total_submitted,
          total_missing |-> totals.total_missing,
          total_late |-> totals.total_late,
          total_graded |-> totals.total_graded,
          avg_submitted_pct |-> totals.avg_submitted_pct,
          avg_all_pct |-> totals.avg_all_pct,
          points_earned |-> totals.points_earned,
          points_possible |-> totals.points_possible,
          needs_rebuild |-> 0, last_synced |-> t])]

\* rebuild_summary(student_id, course_id) in its own transaction; the
\* foreign keys of course_summaries reject an unknown student or course
rebuild_summary(d, s, c, t) ==
  IF s \notin DOMAIN d.students \/ c \notin DOMAIN d.courses
  THEN [db |-> d, raised |-> TRUE]
  ELSE [db |-> StoreRebuilt(d, s, c, Aggregate(d, s, c), t), raised |-> FALSE]

\* MAX(sub.updated_at) over the student's submissions of the course
MaxUpdated(d, s, c) ==
  LET ts == {d.submissions[k].updated_at :
               k \in {k \in DOMAIN d.submissions :
                        /\ k[1] = s
                        /\ k[2] \in CourseAssignments(d, c)
                        /\ d.submissions[k].updated_at # Null}}
  IN IF ts = {} THEN Null ELSE CHOOSE v \in ts : \A w \in ts : w <= v

\* MAX(created_at) over the assignments of the course
MaxCreated(d, c) ==
  LET ts == {d.assignments[a].created_at : a \in CourseAssignments(d, c)}
  IN IF ts = {} THEN Null ELSE CHOOSE v \in ts : \A w \in ts : w <= v

\* the string comparisons of _summary_needs_refresh: updated_at and
\* last_synced have the same format; a created_at ("...T...Z") is greater
\* than a last_synced ("... ...") of the same day
_summary_needs_refresh(d, s, c) ==
  IF <<s, c>> \notin DOMAIN d.summaries THEN TRUE
  ELSE LET row == d.summaries[<<s, c>>]
           last_synced == IF row.last_synced = Null THEN 0 ELSE row.last_synced
       IN \/ row.needs_rebuild = 1
          \/ MaxUpdated(d, s, c) # Null /\ MaxUpdated(d, s, c) > last_synced
          \/ MaxCreated(d, c) # Null /\ MaxCreated(d, c) >= last_synced

\* get_summary(student_id, course_id): the store it leaves and the row it
\* returns (found = FALSE for None)
get_summary(d, s, c, t) ==
  IF _summary_needs_refresh(d, s, c)
  THEN With(rebuild_summary(d, s, c, t),
            LAMBDA r :
              IF r.raised THEN [db |-> d, raised |-> TRUE, found |-> FALSE]
              ELSE [db |-> r.db, raised |-> FALSE, found |-> TRUE,
                    row |-> r.db.summaries[<<s, c>>]])
  ELSE [db |-> d, raised |-> FALSE, found |-> TRUE,
        row |-> d.summaries[<<s, c>>]]

\* the WHERE clause of flag_submission
Flaggable(row) ==
  \/ row.status = "Missing"
  \/ row.score_points = 0
  \/ row.status \in {"Submitted", "Late", "Graded"} /\ row.score_points = Null

\* get_missing_work: the assignments of the student's submissions rows that
\* satisfy the predicate (submissions JOIN assignments)
get_missing_work(d, s) ==
  {a \in DOMAIN d.assignments : <<s, a>> \in DOMAIN d.submissions /\ Flaggable(d.submissions[<<s, a>>])}

\* the status column of get_student_work_filtered and of
\* get_projection_snapshot (assignments LEFT JOIN submissions)
WorkStatus(d, s, a) ==
  IF <<s, a>> \notin DOMAIN d.submissions THEN "Missing"
  ELSE IF d.submissions[<<s, a>>].score_points = 0 THEN "Missing"
  ELSE IF d.submissions[<<s, a>>].status \in {"Submitted", "Late", "Graded"} /\ d.submissions[<<s, a>>].score_points = Null THEN "Missing"
  ELSE d.submissions[<<s, a>>].status

flag_submission(d, s, a) ==
  IF <<s, a>> \in DOMAIN d.submissions /\ Flaggable(d.submissions[<<s, a>>])
  THEN [db |-> [d EXCEPT !.submissions[<<s, a>>].flagged_by_student = 1],
        ok |-> TRUE]
  ELSE [db |-> d, ok |-> FALSE]

\* get_pending_flags: the submissions with flagged_by_student = 1 and
\* flag_verified = 0, joined with students, assignments and courses
get_pending_flags(d) ==
  {k \in DOMAIN d.submissions :
     /\ d.submissions[k].flagged_by_student = 1
     /\ d.submissions[k].flag_verified = 0
     /\ k[1] \in DOMAIN d.students
     /\ k[2] \in DOMAIN d.assignments
     /\ d.assignments[k[2]].course \in DOMAIN d.courses}

\* add_submission_proof: rowcount > 0 of the UPDATE of the proof columns
add_submission_proof(d, s, a) ==
  /\ <<s, a>> \in DOMAIN d.submissions
  /\ d.submissions[<<s, a>>].flagged_by_student = 1
  /\ d.submissions[<<s, a>>].flag_verified = 0

\* the UPDATE of a verification, with the trigger of the schema
VerifyUpdate(d, s, a, approved) ==
  LET old == d.submissions[<<s, a>>]
      new == [old EXCEPT !.status = IF approved THEN "Submitted" ELSE "Missing",
                         !.flag_verified = 1, !.flagged_by_student = 0]
      d1 == [d EXCEPT !.submissions[<<s, a>>] = new]
  IN IF TriggerFires(old, new) /\ a \in DOMAIN d.assignments
     THEN MarkDirty(d1, s, d.assignments[a].course) ELSE d1

\* verify_flag: the UPDATE commits, then rebuild_summary runs in a second
\* transaction
verify_flag(d, s, a, approved, t) ==
  IF <<s, a>> \notin DOMAIN d.submissions
  THEN [db |-> d, ok |-> FALSE, raised |-> FALSE]
  ELSE With(rebuild_summary(VerifyUpdate(d, s, a, approved), s,
                            d.assignments[a].course, t),
            LAMBDA r : [db |-> r.db, ok |-> TRUE, raised |-> r.raised])

\* ------------------------------------------------- teacher_dashboard/app.py
SafeNum(v) == IF v = Null THEN 0 ELSE v

\* _rebuild_summary of the dashboard: NULL aggregates are stored as 0
DashboardRebuild(d, s, c, t) ==
  LET g == Aggregate(d, s, c) IN
  StoreRebuilt(d, s, c, [k \in DOMAIN g |-> SafeNum(g[k])], t)

\* api_verify_report: only a pending flag is verified; the summary is
\* rebuilt on the same connection
api_verify_report(d, s, a, approved, t) ==
  IF /\ <<s, a>> \in DOMAIN d.submissions
     /\ d.submissions[<<s, a>>].flagged_by_student = 1
     /\ d.submissions[<<s, a>>].flag_verified = 0
  THEN [db |-> DashboardRebuild(VerifyUpdate(d, s, a, approved), s,
                                d.assignments[a].course, t),
        ok |-> TRUE]
  ELSE [db |-> d, ok |-> FALSE]

\* ------------------------------------------------ db.py: the repair worker
\* the (student, course) pairs of the SELECT of rebuild_dirty_summaries
DirtyPairs(d) ==
  {p \in d.enrollments \cup
         {<<k[1], d.assignments[k[2]].course>> : k \in DOMAIN d.submissions} :
     p \notin DOMAIN d.summaries \/ d.summaries[p].needs_rebuild = 1}

\* ORDER BY student_id, course_id
PairBefore(p, q) == p[1] < q[1] \/ (p[1] = q[1] /\ p[2] < q[2])

RECURSIVE SortPairs(_)
SortPairs(S) ==
  IF S = {} THEN <<>>
  ELSE LET m == CHOOSE p \in S : \A q \in S \ {p} : PairBefore(p, q)
       IN <<m>> \o SortPairs(S \ {m})

\* a selection without LIMIT
SelectDirty_NoLimit(d, limit) ==
  SortPairs(DirtyPairs(d))

SelectDirty(d, limit) ==
  LET all == SortPairs(DirtyPairs(d))
  IN SubSeq(all, 1, IF Len(all) < limit THEN Len(all) ELSE limit)

\* the loop of rebuild_dirty_summaries over the selected rows; `fault` is
\* the position whose rebuild_summary raises (0: none), e.g.
\* sqlite3.OperationalError while another connection holds the write lock
RECURSIVE RebuildLoop(_, _, _, _, _)
RebuildLoop(d, rows, i, fault, t) ==
  IF i > Len(rows) THEN [db |-> d, raised |-> FALSE, rebuilt |-> {}]
  ELSE With(IF i = fault THEN [db |-> d, raised |-> TRUE]
            ELSE rebuild_summary(d, rows[i][1], rows[i][2], t),
            LAMBDA r :
              IF r.raised THEN [db |-> d, raised |-> TRUE, rebuilt |-> {}]
              ELSE [RebuildLoop(r.db, rows, i + 1, fault, t)
                      EXCEPT !.rebuilt = @ \cup {rows[i]}])

rebuild_dirty_summaries(d, limit, fault, t) ==
  RebuildLoop(d, SelectDirty(d, limit), 1, fault, t)


\* ---------------------------------------------------------- sync/importer.py
\* _parse_score of the importer: one decimal
_parse_score(raw) ==
  IF raw = NoRaw \/ Len(raw) # 2 \/ Bad \in {raw[i] : i \in 1..Len(raw)}
  THEN [points |-> Null, max |-> Null, pct |-> Null]
  ELSE [points |-> raw[1], max |-> raw[2],
        pct |-> IF raw[2] # 0 THEN RoundDiv(raw[1] * 1000, raw[2]) * 10
                ELSE Null]

\* a row matched by the pattern of parse_report
ImportRowMatches(line) ==
  /\ line.lms_id # Bad
  /\ line.status \in {"Submitted", "Missing", "Late", "Graded"}
  /\ Bad \notin {line.score[i] : i \in 1..Len(line.score)}
  /\ line.created_at # Null

RECURSIVE ImportRows(_, _)
ImportRows(lines, i) ==
  IF i > Len(lines) THEN <<>>
  ELSE (IF ImportRowMatches(lines[i])
        THEN LET sc == _parse_score(lines[i].score) IN
             <<[lms_id |-> lines[i].lms_id, title |-> lines[i].title,
                status |-> lines[i].status, score_raw |-> lines[i].score,
                score_points |-> sc.points, score_max |-> sc.max,
                score_pct |-> sc.pct, created_at |-> lines[i].created_at]>>
        ELSE <<>>) \o ImportRows(lines, i + 1)

\* parse_report: one dict per student block
parse_report(blocks) ==
  [i \in 1..Len(blocks) |->
     [lms_id |-> blocks[i].sid, full_name |-> blocks[i].name,
      assignments |-> ImportRows(blocks[i].lines, 1)]]

ImportStats0 == [students |-> 0, assignments |-> 0, submissions |-> 0,
                 updated |-> 0]

\* INSERT INTO assignments ... ON CONFLICT(lms_id) DO UPDATE SET title,
\* max_score
ImportAssignmentRow(d, course_id, a) ==
  IF a.lms_id \notin DOMAIN d.assignments
  THEN [course |-> course_id, title |-> a.title, max_score |-> a.score_max,
        created_at |-> a.created_at, is_active |-> 1]
  ELSE LET row == d.assignments[a.lms_id] IN
       [row EXCEPT !.title = a.title,
                   !.max_score = IF row.max_score = Null THEN a.score_max
                                 ELSE IF a.score_max = Null THEN row.max_score
                                 ELSE Max2(row.max_score, a.score_max)]

\* the assignment and submission statements for one parsed row
ImportRow(tx, s, course_id, a, t) ==
  LET d1 == [tx.db EXCEPT !.assignments =
                Put(@, a.lms_id, ImportAssignmentRow(tx.db, course_id, a))]
      p == [status |-> a.status, score_raw |-> a.score_raw,
            score_points |-> a.score_points, score_max |-> a.score_max,
            score_pct |-> a.score_pct]
  IN With(WriteSubmission(Tx(d1, Stats0, FALSE), s, a.lms_id, p, t),
          LAMBDA w :
            [db |-> w.db, raised |-> w.raised,
             stats |-> [tx.stats EXCEPT
                          !.assignments = @ + 1,
                          !.submissions = @ + w.stats.submissions_added,
                          !.updated = @ + w.stats.submissions_updated]])

RECURSIVE ImportRowsLoop(_, _, _, _, _, _)
ImportRowsLoop(tx, s, course_id, recs, i, t) ==
  IF i > Len(recs) \/ tx.raised THEN tx
  ELSE ImportRowsLoop(ImportRow(tx, s, course_id, recs[i], t),
                      s, course_id, recs, i + 1, t)

\* one student of import_to_db; the enrollment needs an existing course
ImportStudent(tx, student, course_id, t) ==
  IF course_id \notin DOMAIN tx.db.courses THEN Raise(tx)
  ELSE LET d1 == [tx.db EXCEPT
                    !.students = Put(@, student.lms_id, student.full_name),
                    !.enrollments = @ \cup {<<student.lms_id, course_id>>}]
       IN ImportRowsLoop([db |-> d1, raised |-> FALSE,
                          stats |-> [tx.stats EXCEPT !.students = @ + 1]],
                         student.lms_id, course_id, student.assignments, 1, t)

RECURSIVE ImportStudents(_, _, _, _, _)
ImportStudents(tx, students, i, course_id, t) ==
  IF i > Len(students) \/ tx.raised THEN tx
  ELSE ImportStudents(ImportStudent(tx, students[i], course_id, t),
                      students, i + 1, course_id, t)

\* rebuild_summary(row["id"], course_id) for every row of students
RECURSIVE RebuildAll(_, _, _, _)
RebuildAll(d, ss, c, t) ==
  IF ss = {} THEN [db |-> d, raised |-> FALSE]
  ELSE With(CHOOSE x \in ss : \A y \in ss : x <= y,
            LAMBDA s :
              With(rebuild_summary(d, s, c, t),
                   LAMBDA r :
                     IF r.raised THEN r
                     ELSE RebuildAll(r.db, ss \ {s}, c, t)))

import_to_db(d, students, course_id, dry_run, t) ==
  IF dry_run
  THEN [db |-> d, raised |-> FALSE, committed |-> FALSE,
        stats |-> [ImportStats0 EXCEPT !.students = Len(students)]]
  ELSE With(ImportStudents([db |-> d, raised |-> FALSE,
                            stats |-> ImportStats0],
                           students, 1, course_id, t),
            LAMBDA tx :
              IF tx.raised
              THEN [db |-> d, raised |-> TRUE, committed |-> FALSE,
                    stats |-> tx.stats]
              ELSE With(RebuildAll(tx.db, DOMAIN tx.db.students, course_id, t),
                        LAMBDA r :
                          IF r.raised
                          THEN [db |-> r.db, raised |-> TRUE,
                                committed |-> TRUE, stats |-> tx.stats]
                          ELSE [db |-> [r.db EXCEPT !.sync_log =
                                   Append(@, [course |-> course_id,
                                              source |-> "txt_import",
                                              rows_added |-> tx.stats.submissions,
                                              rows_updated |-> tx.stats.updated])],
                                raised |-> FALSE, committed |-> TRUE,
                                stats |-> tx.stats]))

\* ----------------------------- get_all_coursework.py, learner_data/writer.py
\* the filter of get_all_coursework on creationTime
InWindow(created, start_date, end_date) ==
  IF start_date = Null /\ end_date = Null THEN TRUE
  ELSE /\ created # Null
       /\ (start_date # Null => created >= start_date)
       /\ (end_date # Null => created <= end_date)

RECURSIVE FilterCoursework(_, _, _, _)
FilterCoursework(cws, i, start_date, end_date) ==
  IF i > Len(cws) THEN <<>>
  ELSE (IF InWindow(cws[i].creationTime, start_date, end_date)
        THEN <<cws[i]>> ELSE <<>>)
       \o FilterCoursework(cws, i + 1, start_date, end_date)

\* the metrics of one student's coursework as the analysis reports them
Metrics(cws) ==
  LET I == 1..Len(cws)
      P(i) == _compute_submission_status_and_score(cws[i])
      G == {i \in I : P(i).score_pct # Null}
      sum == SumSeq([i \in I |-> IF i \in G THEN P(i).score_pct ELSE 0], 1)
  IN [given |-> TRUE, total_assignments |-> Len(cws),
      missing |-> Cardinality({i \in I : P(i).status = "Missing"}),
      late |-> Cardinality({i \in I : P(i).status = "Late"}),
      graded_count |-> Cardinality(G),
      average_submitted |-> IF G = {} THEN 0
                            ELSE RoundDiv(sum, Cardinality(G)),
      average_all |-> IF I = {} THEN 0 ELSE RoundDiv(sum, Len(cws))]

\* analyse_students: every student of the roster with the coursework
\* get_all_coursework returns for the window and the metrics over it
analyse_students(roster, start_date, end_date) ==
  [i \in 1..Len(roster) |->
     LET cws == FilterCoursework(roster[i].coursework, 1, start_date, end_date)
     IN [sid |-> roster[i].sid, name |-> roster[i].name, ok |-> roster[i].ok,
         coursework |-> cws, metrics |-> Metrics(cws)]]

\* _resolve_window
_resolve_window(win, today) ==
  IF win.days = "custom" THEN [start |-> win.start, end |-> win.end]
  ELSE IF win.days = "all" THEN [start |-> Null, end |-> Null]
  ELSE [start |-> today - win.n, end |-> today]

\* the course loop of sync_all_learners; synced collects the courses whose
\* pass returned
RECURSIVE CourseLoop(_, _, _, _, _, _)
CourseLoop(d, upstream, i, w, school_name, t) ==
  IF i > Len(upstream) THEN [db |-> d, raised |-> FALSE, synced |-> {}]
  ELSE With(analyse_students(upstream[i].roster, w.start, w.end),
            LAMBDA analysis :
              IF Len(analysis) = 0
              THEN CourseLoop(d, upstream, i + 1, w, school_name, t)
              ELSE With(sync_course_analysis_to_db(
                          d, upstream[i].course, analysis, school_name,
                          FALSE, Null, Null, NoActive, t),
                        LAMBDA r :
                          IF r.raised
                          THEN [db |-> d, raised |-> TRUE, synced |-> {}]
                          ELSE [CourseLoop(r.db, upstream, i + 1, w,
                                           school_name, t)
                                  EXCEPT !.synced =
                                           @ \cup {upstream[i].course.id}]))

sync_all_learners(d, upstream, win, school_name, t) ==
  CourseLoop(d, upstream, 1, _resolve_window(win, t), school_name, t)


\* ------------------------------------------------------------ the upstream
\* the classroom course an assignment id belongs to and its creation day
CourseOf(a) == ((a - 1) % 2) + 1

DayOf(a) == (((a - 1) \div 2) % MaxDay) + 1

CourseWork(c) == {a \in AssignmentIds : CourseOf(a) = c}

RECURSIVE SetToSeq(_)
SetToSeq(S) ==
  IF S = {} THEN <<>>
  ELSE LET m == CHOOSE x \in S : \A y \in S : x <= y
       IN <<m>> \o SetToSeq(S \ {m})

Returned == [state |-> "RETURNED", late |-> FALSE, assignedGrade |-> 7]

\* one student of a classroom roster with the coursework ids A: the first
\* carries the submission `first`, the others `rest`
Learner(s, A, first, rest, ok) ==
  LET q == SetToSeq(A) IN
  [sid |-> s, name |-> "Ann", ok |-> ok,
   coursework |-> [i \in 1..Len(q) |->
                     [id |-> q[i], title |-> "Quiz", maxPoints |-> 10,
                      creationTime |-> DayOf(q[i]),
                      submission |-> IF i = 1 THEN first ELSE rest]]]

\* a class of two students; `ok` is FALSE when the second record is broken
Class(c, ok) ==
  <<Learner(1, CourseWork(c), Returned, Returned, TRUE),
    Learner(2, CourseWork(c), Returned, Returned, ok)>>

Rosters(c) ==
  {<<>>}
  \cup {<<Learner(1, B, Returned, Returned, TRUE)>> : B \in SUBSET CourseWork(c)}
  \cup {<<Learner(1, CourseWork(c), first, NoSub, TRUE)>> :
          first \in {Returned, NoSub}}
  \cup {Class(c, ok) : ok \in BOOLEAN}

CourseHeader(c) == [id |-> c, name |-> "Course"]

LiveCall(c, roster, dry_run, start, end, active) ==
  [course |-> CourseHeader(c), feed |-> analyse_students(roster, start, end),
   dry_run |-> dry_run, start_date |-> start, end_date |-> end,
   active |-> active]

\* the calls of sync_course_analysis_to_db: whole feeds, dry runs, and
\* windowed feeds with and without an authoritative id list
LiveCalls ==
  UNION {{LiveCall(c, r, FALSE, Null, Null, NoActive) : r \in Rosters(c)} :
           c \in Courses}
  \cup {LiveCall(c, Class(c, TRUE), TRUE, Null, Null, NoActive) : c \in Courses}
  \cup {LiveCall(1, <<Learner(1, B, Returned, Returned, TRUE)>>, FALSE, d, d, act) :
          B \in {{}, CourseWork(1)}, d \in 1..MaxDay,
          act \in {NoActive}
                  \cup {[given |-> TRUE, ids |-> X] : X \in SUBSET CourseWork(1)}}

\* the report text of a course: one block per student, one row per
\* assignment, no summary section
ReportDoc(c, status, score, two, ok) ==
  LET q == SetToSeq(CourseWork(c))
      lines == [i \in 1..Len(q) |->
                  [title |-> "Quiz", lms_id |-> q[i], status |-> status,
                   score |-> score, created_at |-> DayOf(q[i])]]
      Block(s, fine) == [sid |-> s, name |-> "Ann", ok |-> fine,
                         lines |-> lines, metrics |-> [given |-> FALSE]]
  IN [course_lms_id |-> c, course_name |-> "Course",
      students |-> IF two THEN <<Block(1, TRUE), Block(2, ok)>>
                   ELSE <<Block(1, TRUE)>>]

ParsedReport(doc) ==
  [doc EXCEPT !.students = [i \in 1..Len(@) |-> parse_student_block(@[i])]]

ReportDocs(c) ==
  {ReportDoc(c, "Graded", <<7, 10>>, FALSE, TRUE),
   ReportDoc(c, "Missing", NoRaw, FALSE, TRUE),
   ReportDoc(c, "Graded", <<7, 10>>, TRUE, FALSE)}

\* a report whose block lists its first assignment twice: graded, then
\* missing
ReportDocTwice(c) ==
  LET doc == ReportDoc(c, "Graded", <<7, 10>>, FALSE, TRUE) IN
  [doc EXCEPT !.students[1].lines =
     @ \o <<[@[1] EXCEPT !.status = "Missing", !.score = NoRaw]>>]

ReportCalls ==
  {[reports |-> <<r>>, dry_run |-> FALSE] :
     r \in ReportDocs(1) \cup ReportDocs(2) \cup {ReportDocTwice(1)}}
  \cup {[reports |-> <<ReportDoc(c, "Graded", <<7, 10>>, FALSE, TRUE)>>,
         dry_run |-> TRUE] : c \in Courses}
  \cup {[reports |-> <<ReportDoc(1, "Graded", <<7, 10>>, TRUE, ok1),
                       ReportDoc(2, "Graded", <<7, 10>>, TRUE, ok2)>>,
         dry_run |-> FALSE] : ok1 \in BOOLEAN, ok2 \in BOOLEAN}

ImportCalls ==
  {[blocks |-> ReportDoc(1, status, IF status = "Graded" THEN <<7, 10>> ELSE NoRaw,
                         FALSE, TRUE).students,
    course_id |-> 1, dry_run |-> dry] :
     status \in {"Graded", "Missing"}, dry \in BOOLEAN}

\* the calls of sync_all_learners: the classroom courses in name order and
\* the window asked for
SyncAllCalls ==
  {[upstream |-> [c \in Courses |->
                    [course |-> CourseHeader(c),
                     roster |-> Class(c, c # 1 \/ ok)]],
    win |-> w] :
     ok \in BOOLEAN,
     w \in {[days |-> "all"], [days |-> "days", n |-> MaxDay]}
           \cup {[days |-> "custom", start |-> d, end |-> d] : d \in 1..MaxDay}}

\* ------------------------------------------- feeds with varying metadata
Titles == {"", "Q", "Quiz", "Exam", "Quiz 1"}

MaxPoints == {Null, 5, 10}

\* a student of course 1 who sees coursework 1 under the given title and
\* maximum, without a submission
MetaLearner(s, title, max) ==
  [Learner(s, {1}, NoSub, NoSub, TRUE) EXCEPT !.coursework[1].title = title, !.coursework[1].maxPoints = max]

\* a report of course 1 whose students list assignment 1 under the given
\* titles and scores
MetaReport(titles, scores) ==
  [ReportDoc(1, "Graded", NoRaw, Len(titles) = 2, TRUE) EXCEPT !.students = [i \in 1..Len(titles) |-> [@[i] EXCEPT !.lines = <<[@[1] EXCEPT !.title = titles[i], !.score = scores[i]]>>]]]

\* a student with three pieces of coursework: 8 of 10 returned in time,
\* 15 of 20 returned late, and one without maximum and without submission
GradedLearner ==
  [Learner(1, {1, 2, 3}, NoSub, NoSub, TRUE) EXCEPT
     !.coursework[1].submission = [state |-> "RETURNED", late |-> FALSE, assignedGrade |-> 8],
     !.coursework[2].maxPoints = 20,
     !.coursework[2].submission = [state |-> "RETURNED", late |-> TRUE, assignedGrade |-> 15],
     !.coursework[3].maxPoints = Null]

\* a submission the teacher graded before the student turned it in
GradedDraft == [state |-> "CREATED", late |-> FALSE, assignedGrade |-> 8]

MetaLiveCalls ==
  {LiveCall(1, <<MetaLearner(1, t, m)>>, FALSE, Null, Null, NoActive) : t \in {"Quiz", "Quiz 1"}, m \in MaxPoints}
  \cup {LiveCall(1, <<Learner(1, {1}, GradedDraft, NoSub, TRUE)>>, FALSE, Null, Null, NoActive)}
  \cup {LiveCall(1, <<GradedLearner>>, FALSE, Null, Null, NoActive)}
  \cup {LiveCall(1, <<[MetaLearner(1, "Quiz", 10) EXCEPT !.coursework[1].creationTime = ct]>>, FALSE, Null, Null, NoActive) : ct \in {Null, 2}}

MetaReportCalls ==
  {[reports |-> <<MetaReport(<<t>>, <<sc>>)>>, dry_run |-> FALSE] : t \in {"Quiz", "Quiz 1"}, sc \in {NoRaw, <<3, 5>>, <<7, 10>>}}
  \cup {[reports |-> <<MetaReport(<<"Quiz", "Quiz">>, <<x, y>>)>>, dry_run |-> FALSE] : x \in {<<3, 5>>, <<7, 10>>}, y \in {<<3, 5>>, <<7, 10>>}}
  \cup {[reports |-> <<[MetaReport(<<"Quiz">>, <<NoRaw>>) EXCEPT !.students[1].lines[1].created_at = ct]>>, dry_run |-> FALSE] : ct \in {Null, 2}}
  \cup {[reports |-> <<[MetaReport(<<"Quiz">>, <<NoRaw>>) EXCEPT !.students[1].lines[1].status = "Flagged"]>>, dry_run |-> FALSE]}

\* parsed reports handed to import_to_db under a shorter and a longer title
MetaImportCalls ==
  {[blocks |-> MetaReport(<<t>>, <<NoRaw>>).students, course_id |-> 1, dry_run |-> FALSE] : t \in {"Quiz", "Quiz 1"}}

\* the title _build_assignment_map keeps for coursework 1 seen as a, then b
LiveMergedTitle(a, b) ==
  _build_assignment_map(analyse_students(<<MetaLearner(1, a, 10), MetaLearner(2, b, 10)>>, Null, Null))[1].title

\* the title aggregate_assignments keeps for assignment 1 listed as a, then b
ReportMergedTitle(a, b) ==
  aggregate_assignments(ParsedReport(MetaReport(<<a, b>>, <<NoRaw, NoRaw>>)).students)[1].title

\* ------------------------------------------------------------- the actions
\* the bookkeeping of one operation: the store it leaves, the clock, and
\* the call and its result for the properties below
Step(kind, args, res, d) ==
  /\ sync' = sync
  /\ conns' = conns
  /\ worker' = worker
  /\ ai' = ai
  /\ camp' = camp
  /\ db' = d
  /\ now' = now + 1
  /\ pre' = db
  /\ lastOp' = [kind |-> kind, args |-> args, res |-> res,
                repeat |-> /\ lastOp.kind = kind
                           /\ lastOp.args = args
                           /\ lastOp.res.committed]

LivePass(calls, ops) ==
  /\ now <= MaxDay + ops
  /\ \E call \in calls :
       With(sync_course_analysis_to_db(
              db, call.course, call.feed, "School", call.dry_run,
              call.start_date, call.end_date, call.active, now),
            LAMBDA r :
              Step("live", call,
                   [stats |-> r.stats, raised |-> r.raised,
                    committed |-> r.committed], r.db))

SyncReports(calls, ops) ==
  /\ now <= MaxDay + ops
  /\ \E call \in calls :
       With(sync_reports(db, [i \in 1..Len(call.reports) |->
                                ParsedReport(call.reports[i])],
                         "School", call.dry_run, now),
            LAMBDA r :
              Step("reports", call,
                   [stats |-> r.stats, raised |-> r.raised,
                    committed |-> r.committed], r.db))

ImportToDb(calls, ops) ==
  /\ now <= MaxDay + ops
  /\ \E call \in calls :
       With(import_to_db(db, parse_report(call.blocks), call.course_id,
                         call.dry_run, now),
            LAMBDA r :
              Step("import", call,
                   [stats |-> r.stats, raised |-> r.raised,
                    committed |-> r.committed], r.db))

SyncAllLearners(calls, ops) ==
  /\ now <= MaxDay + ops
  /\ \E call \in calls :
       With(sync_all_learners(db, call.upstream, call.win, "School", now),
            LAMBDA r :
              Step("sync_all", call,
                   [raised |-> r.raised, synced |-> r.synced,
                    window |-> _resolve_window(call.win, now),
                    committed |-> FALSE], r.db))

FlagSubmission(ops) ==
  /\ now <= MaxDay + ops
  /\ \E k \in DOMAIN db.submissions :
       With(flag_submission(db, k[1], k[2]),
            LAMBDA r :
              /\ r.ok
              /\ Step("flag", [student |-> k[1], assignment |-> k[2]],
                      [committed |-> FALSE], r.db))

VerifyFlag(ops) ==
  /\ now <= MaxDay + ops
  /\ \E k \in DOMAIN db.submissions, approved \in BOOLEAN :
       With(verify_flag(db, k[1], k[2], approved, now),
            LAMBDA r :
              Step("verify_flag",
                   [student |-> k[1], assignment |-> k[2],
                    approved |-> approved],
                   [raised |-> r.raised, committed |-> FALSE,
                    written |-> VerifyUpdate(db, k[1], k[2], approved).summaries],
                   r.db))

ApiVerifyReport(ops) ==
  /\ now <= MaxDay + ops
  /\ \E k \in DOMAIN db.submissions, approved \in BOOLEAN :
       With(api_verify_report(db, k[1], k[2], approved, now),
            LAMBDA r :
              /\ r.ok
              /\ Step("api_verify",
                      [student |-> k[1], assignment |-> k[2],
                       approved |-> approved],
                      [committed |-> FALSE,
                       written |-> VerifyUpdate(db, k[1], k[2],
                                                approved).summaries],
                      r.db))

GetSummary(ops) ==
  /\ now <= MaxDay + ops
  /\ \E s \in Students, c \in Courses :
       With(get_summary(db, s, c, now),
            LAMBDA r :
              Step("get_summary", [student |-> s, course |-> c],
                   [raised |-> r.raised, found |-> r.found,
                    row |-> IF r.found THEN r.row ELSE PlaceholderSummary,
                    committed |-> FALSE], r.db))

\* one tick of summary_repair_worker
RepairTick(ops) ==
  /\ now <= MaxDay + ops
  /\ \E limit \in 1..2, fault \in 0..2 :
       /\ fault <= Len(SelectDirty(db, limit))
       /\ With(rebuild_dirty_summaries(db, limit, fault, now),
               LAMBDA r :
                 Step("repair", [limit |-> limit, fault |-> fault],
                      [raised |-> r.raised, rebuilt |-> r.rebuilt,
                       selected |-> SelectDirty(db, limit),
                       committed |-> FALSE], r.db))

\* rebuild_summary called for one student and course
RebuildSummary(ops) ==
  /\ now <= MaxDay + ops
  /\ \E s \in Students, c \in Courses :
       With(rebuild_summary(db, s, c, now),
            LAMBDA r :
              Step("rebuild_summary", [student |-> s, course |-> c],
                   [raised |-> r.raised,
                    row |-> IF r.raised THEN PlaceholderSummary ELSE r.db.summaries[<<s, c>>],
                    committed |-> FALSE], r.db))

\* two observations of the title of one assignment, merged in both orders
MergeTitles(ops) ==
  /\ now <= MaxDay + ops
  /\ \E a \in Titles, b \in Titles :
       Step("merge_titles", [a |-> a, b |-> b],
            [ab |-> pick_title(a, b), ba |-> pick_title(b, a),
             live_ab |-> LiveMergedTitle(a, b), live_ba |-> LiveMergedTitle(b, a),
             report_ab |-> ReportMergedTitle(a, b), report_ba |-> ReportMergedTitle(b, a),
             committed |-> FALSE], db)

\* Status Derivation applied to one coursework entry of the live feed
DeriveStatus(ops) ==
  /\ now <= MaxDay + ops
  /\ \E state \in {"NONE", "NEW", "CREATED", "TURNED_IN", "RETURNED"}, late \in BOOLEAN, grade \in {Null, 0, 8}, max \in MaxPoints \cup {0} :
       With([id |-> 1, title |-> "Quiz", maxPoints |-> max, creationTime |-> DayOf(1), submission |-> [state |-> state, late |-> late, assignedGrade |-> grade]],
            LAMBDA cw : Step("derive_status", cw, [derived |-> _compute_submission_status_and_score(cw), committed |-> FALSE], db))

\* score tokens: no token, a token without a slash, "p/m" with numeric or
\* non-numeric parts, and a token with two slashes
ScoreTokens ==
  {NoRaw, <<7>>, <<1, 2, 3>>} \cup {<<p, m>> : p \in {Bad, 0, 1, 8}, m \in {Bad, 0, 3, 10}}

\* both score parsers applied to one token
ParseScore(ops) ==
  /\ now <= MaxDay + ops
  /\ \E raw \in ScoreTokens :
       Step("parse_score", raw, [parsed |-> parse_score(raw), imported |-> _parse_score(raw), committed |-> FALSE], db)

\* ------------------------------------- sync_all_learners, call by call
\* no sync_all_learners is running: no upstream call is in flight, no
\* analysis is held and no connection to the store is open
Idle ==
  [pc |-> "idle", call |-> <<>>, i |-> 0, upstream |-> {}, held |-> <<>>, heldFor |-> Null, tx |-> Null]

\* a connection opened while analyse_students is still running
MayOpenTransaction_DuringFetch(y) == y.pc \in {"fetching", "fetched"}

\* sync_all_learners calls sync_course_analysis_to_db, which connects to the
\* store, once analyse_students has returned a non-empty analysis
MayOpenTransaction(y) == y.pc = "fetched"

\* sync_all_learners is called: the window is resolved and the classroom
\* courses are listed and sorted
StartSync(calls, ops) ==
  /\ sync.pc = "idle"
  /\ now <= MaxDay + ops
  /\ \E call \in calls :
       sync' = [Idle EXCEPT !.pc = "next", !.call = [upstream |-> call.upstream, win |-> _resolve_window(call.win, now)], !.i = 1]
  /\ now' = now + 1
  /\ UNCHANGED <<db, lastOp, pre, conns, worker, ai, camp>>

\* the loop reaches the next course and calls analyse_students for it, or
\* it has passed the last course and sync_all_learners returns
FetchCourse ==
  /\ sync.pc = "next"
  /\ sync' = IF sync.i > Len(sync.call.upstream) THEN Idle
             ELSE [sync EXCEPT !.pc = "fetching", !.upstream = {sync.call.upstream[sync.i].course.id}]
  /\ UNCHANGED <<db, now, lastOp, pre, conns, worker, ai, camp>>

\* analyse_students returns the analysis of the course; a course without
\* students is skipped
FetchDone ==
  /\ sync.pc = "fetching"
  /\ With(analyse_students(sync.call.upstream[sync.i].roster, sync.call.win.start, sync.call.win.end),
          LAMBDA analysis :
            sync' = IF Len(analysis) = 0
                    THEN [sync EXCEPT !.pc = "next", !.i = @ + 1, !.upstream = {}]
                    ELSE [sync EXCEPT !.pc = "fetched", !.upstream = {}, !.held = analysis, !.heldFor = sync.call.upstream[sync.i].course.id])
  /\ UNCHANGED <<db, now, lastOp, pre, conns, worker, ai, camp>>

\* an upstream call raises: the exception leaves sync_all_learners
UpstreamFails ==
  /\ sync.pc = "fetching"
  /\ sync' = Idle
  /\ UNCHANGED <<db, now, lastOp, pre, conns, worker, ai, camp>>

\* sync_course_analysis_to_db connects to the store and applies the schema
OpenTx ==
  /\ MayOpenTransaction(sync)
  /\ sync' = [sync EXCEPT !.pc = "in_tx", !.tx = sync.call.upstream[sync.i].course.id]
  /\ UNCHANGED <<db, now, lastOp, pre, conns, worker, ai, camp>>

\* the pass of the course runs, commits or rolls back, and closes the
\* connection; an exception of the pass leaves sync_all_learners
CloseTx ==
  /\ sync.pc = "in_tx"
  /\ With(sync_course_analysis_to_db(db, sync.call.upstream[sync.i].course, sync.held, "School", FALSE, Null, Null, NoActive, now),
          LAMBDA r :
            /\ db' = r.db
            /\ pre' = db
            /\ lastOp' = [kind |-> "live", args |-> [course |-> sync.call.upstream[sync.i].course, feed |-> sync.held], res |-> [stats |-> r.stats, raised |-> r.raised, committed |-> r.committed], repeat |-> FALSE]
            /\ sync' = IF r.raised THEN Idle
                       ELSE [sync EXCEPT !.pc = "next", !.i = @ + 1, !.upstream = {}, !.held = <<>>, !.heldFor = Null, !.tx = Null])
  /\ now' = now + 1
  /\ conns' = conns
  /\ worker' = worker
  /\ ai' = ai
  /\ camp' = camp

\* ---------------------------- sync_reports_to_class_db.py: report documents
\* the student blocks of a document in order; a block without the Student
\* ID line (sid Bad) gives no StudentRecord
RECURSIVE ParsedStudents(_, _)
ParsedStudents(blocks, i) ==
  IF i > Len(blocks) THEN <<>>
  ELSE (IF blocks[i].sid = Bad THEN <<>> ELSE <<parse_student_block(blocks[i])>>) \o ParsedStudents(blocks, i + 1)

\* a parser that hands on a document without students
parse_course_report_AllowsEmpty(doc) ==
  IF doc.course_lms_id = Null THEN [raised |-> TRUE, report |-> doc]
  ELSE [raised |-> FALSE, report |-> [doc EXCEPT !.students = ParsedStudents(doc.students, 1)]]

\* parse_course_report: ValueError without course header (course_lms_id
\* Null) and when no student was parsed
parse_course_report(doc) ==
  IF doc.course_lms_id = Null THEN [raised |-> TRUE, report |-> doc]
  ELSE IF ParsedStudents(doc.students, 1) = <<>> THEN [raised |-> TRUE, report |-> doc]
  ELSE [raised |-> FALSE, report |-> [doc EXCEPT !.students = ParsedStudents(doc.students, 1)]]

\* main: the document is parsed, then sync_reports is called with it
report_main(d, doc, t) ==
  With(parse_course_report(doc),
       LAMBDA p :
         IF p.raised THEN [db |-> d, parse_failed |-> TRUE, reached |-> FALSE, students |-> <<>>]
         ELSE [db |-> sync_reports(d, <<p.report>>, "School", FALSE, t).db,
               parse_failed |-> FALSE, reached |-> TRUE, students |-> p.report.students])

\* rows with a numeric or a non-numeric id and an allowed or another status
ParseLines ==
  {[title |-> "Quiz", lms_id |-> id, status |-> st, score |-> NoRaw, created_at |-> 1] : id \in {1, 3, Bad}, st \in {"Graded", "Missing", "Excused"}}

ParseBlocks ==
  {[sid |-> s, name |-> "Ann", ok |-> TRUE, lines |-> L, metrics |-> [given |-> FALSE]] :
     s \in {1, Bad}, L \in {<<>>} \cup {<<a>> : a \in ParseLines} \cup {<<a, b>> : a \in ParseLines, b \in ParseLines}}

\* documents of course 1 with no, one or two blocks, and one without header
ParseDocs ==
  {[course_lms_id |-> 1, course_name |-> "Course", students |-> B] :
     B \in {<<>>} \cup {<<b>> : b \in ParseBlocks}
           \cup {<<[b EXCEPT !.sid = s1], [b EXCEPT !.sid = s2]>> : b \in {ReportDoc(1, "Graded", <<7, 10>>, FALSE, TRUE).students[1]}, s1 \in {1, Bad}, s2 \in {2, Bad}}}
  \cup {[ReportDoc(1, "Graded", <<7, 10>>, FALSE, TRUE) EXCEPT !.course_lms_id = Null]}

\* main of sync_reports_to_class_db on one report file
ReportMain(ops) ==
  /\ now <= MaxDay + ops
  /\ \E doc \in ParseDocs :
       With(report_main(db, doc, now),
            LAMBDA r :
              Step("main_reports", [doc |-> doc],
                   [parse_failed |-> r.parse_failed, reached |-> r.reached, students |-> r.students, committed |-> FALSE], r.db))

\* --------------------------------------- the setup the entry points check
SetupOk == [db_file |-> TRUE, schema_file |-> TRUE, credentials |-> TRUE]

\* the complete setup and the setups with one part missing
Setups ==
  {SetupOk, [SetupOk EXCEPT !.db_file = FALSE], [SetupOk EXCEPT !.schema_file = FALSE], [SetupOk EXCEPT !.credentials = FALSE]}

\* what a call did: raised FileNotFoundError, reached sqlite3.connect,
\* called the classroom service
Outcome(d, fatal, connected, upstream) ==
  [db |-> d, fatal |-> fatal, connected |-> connected, upstream |-> upstream]

\* sync_course_analysis_to_db from its first line: the return for an empty
\* analysis, the checks of the two files, then the connection
EnterLivePass(d, setup, call, t) ==
  IF call.feed = <<>> THEN Outcome(d, FALSE, FALSE, FALSE)
  ELSE IF ~setup.db_file \/ ~setup.schema_file THEN Outcome(d, TRUE, FALSE, FALSE)
  ELSE Outcome(sync_course_analysis_to_db(d, call.course, call.feed, "School", call.dry_run, call.start_date, call.end_date, call.active, t).db, FALSE, TRUE, FALSE)

\* sync_reports from its first line: the checks of the two files, then the
\* connection
EnterSyncReports(d, setup, call, t) ==
  IF ~setup.db_file \/ ~setup.schema_file THEN Outcome(d, TRUE, FALSE, FALSE)
  ELSE Outcome(sync_reports(d, [i \in 1..Len(call.reports) |-> ParsedReport(call.reports[i])], "School", call.dry_run, t).db, FALSE, TRUE, FALSE)

\* sync_all_learners from its first line: the checks of the three files,
\* then get_classroom_service and the passes of the courses with a feed
EnterSyncAll(d, setup, call, t) ==
  IF ~setup.db_file \/ ~setup.schema_file \/ ~setup.credentials THEN Outcome(d, TRUE, FALSE, FALSE)
  ELSE Outcome(sync_all_learners(d, call.upstream, call.win, "School", t).db, FALSE,
               \E i \in 1..Len(call.upstream) : Len(call.upstream[i].roster) > 0, TRUE)

SetupLiveCalls ==
  {LiveCall(1, r, FALSE, Null, Null, NoActive) : r \in {<<>>, Class(1, TRUE)}}

SetupReportCalls ==
  {[reports |-> <<ReportDoc(c, "Graded", <<7, 10>>, FALSE, TRUE)>>, dry_run |-> FALSE] : c \in Courses}

SetupSyncAllCalls ==
  {[upstream |-> [c \in Courses |-> [course |-> CourseHeader(c), roster |-> Class(c, TRUE)]], win |-> w] : w \in {[days |-> "all"], [days |-> "days", n |-> MaxDay]}}

\* an entry point called under a setup
EnterLive(ops) ==
  /\ now <= MaxDay + ops
  /\ \E call \in SetupLiveCalls, setup \in Setups :
       With(EnterLivePass(db, setup, call, now),
            LAMBDA r :
              Step("enter_live", [setup |-> setup, call |-> call],
                   [fatal |-> r.fatal, connected |-> r.connected, upstream |-> r.upstream, committed |-> FALSE], r.db))

EnterReports(ops) ==
  /\ now <= MaxDay + ops
  /\ \E call \in SetupReportCalls, setup \in Setups :
       With(EnterSyncReports(db, setup, call, now),
            LAMBDA r :
              Step("enter_reports", [setup |-> setup, call |-> call],
                   [fatal |-> r.fatal, connected |-> r.connected, upstream |-> r.upstream, committed |-> FALSE], r.db))

EnterAll(ops) ==
  /\ now <= MaxDay + ops
  /\ \E call \in SetupSyncAllCalls, setup \in Setups :
       With(EnterSyncAll(db, setup, call, now),
            LAMBDA r :
              Step("enter_all", [setup |-> setup, call |-> call],
                   [fatal |-> r.fatal, connected |-> r.connected, upstream |-> r.upstream, committed |-> FALSE], r.db))

\* ------------------------------------------- db.py: summary_repair_worker
\* the coroutine has not been started
WorkerOff == [pc |-> "off", failed |-> FALSE, reported |-> FALSE]

Running == {"tick", "report", "sleep"}

\* the try block: an exception of the tick enters the handler, a tick
\* without exception goes on to the sleep
AfterTick(w, raised) ==
  IF raised THEN [pc |-> "report", failed |-> TRUE, reported |-> FALSE]
  ELSE [pc |-> "sleep", failed |-> FALSE, reported |-> FALSE]

\* a handler that lets the exception leave the loop
AfterFailure_Propagates(w) ==
  [w EXCEPT !.pc = "ended"]

\* except Exception: the error is printed and the loop goes on to the sleep
AfterFailure(w) ==
  [w EXCEPT !.pc = "sleep", !.reported = TRUE]

StartWorker ==
  /\ worker.pc = "off"
  /\ worker' = [worker EXCEPT !.pc = "tick"]
  /\ UNCHANGED <<db, now, lastOp, pre, sync, conns, ai, camp>>

\* rebuild_dirty_summaries(batch_size) inside the try block; the SELECT or
\* one of the rebuilds may raise
WorkerTick ==
  /\ worker.pc = "tick"
  /\ \E batch \in 1..2, select_fails \in BOOLEAN, fault \in 0..2 :
       /\ fault <= Len(SelectDirty(db, batch))
       /\ select_fails => fault = 0
       /\ With(IF select_fails THEN [db |-> db, raised |-> TRUE, rebuilt |-> {}]
               ELSE rebuild_dirty_summaries(db, batch, fault, now),
               LAMBDA r :
                 /\ db' = r.db
                 /\ pre' = db
                 /\ lastOp' = [kind |-> "worker_tick", args |-> [limit |-> batch, fault |-> fault], res |-> [raised |-> r.raised, rebuilt |-> r.rebuilt, committed |-> FALSE], repeat |-> FALSE]
                 /\ worker' = AfterTick(worker, r.raised))
  /\ UNCHANGED <<now, sync, conns, ai, camp>>

WorkerReport ==
  /\ worker.pc = "report"
  /\ worker' = AfterFailure(worker)
  /\ UNCHANGED <<db, now, lastOp, pre, sync, conns, ai, camp>>

\* asyncio.sleep(interval_sec) returns: the next iteration of while True
WorkerWake ==
  /\ worker.pc = "sleep"
  /\ worker' = [worker EXCEPT !.pc = "tick"]
  /\ UNCHANGED <<db, now, lastOp, pre, sync, conns, ai, camp>>

\* the process shuts down: the task is cancelled
Shutdown ==
  /\ worker.pc \in Running
  /\ worker' = [worker EXCEPT !.pc = "cancelled"]
  /\ UNCHANGED <<db, now, lastOp, pre, sync, conns, ai, camp>>

\* ------------------------------------------------ services/ai_service.py
Requests == 1..MaxRequests

\* _ai_queue is empty, ai_worker waits in _ai_queue.get(); asked and served
\* list the requests in the order of ask_ai and of the worker, calls holds
\* the requests whose ollama.chat runs in a thread, set counts the
\* completions of each future
NoRequests ==
  [queue |-> <<>>, cur |-> Null, calls |-> {}, asked |-> <<>>, served |-> <<>>,
   future |-> [r \in Requests |-> "none"], set |-> [r \in Requests |-> 0]]

\* ask_ai: a future is created and the request is put on the queue
AskAi(r) ==
  /\ ai.future[r] = "none"
  /\ ai' = [ai EXCEPT !.queue = Append(@, r), !.asked = Append(@, r), !.future[r] = "pending"]
  /\ UNCHANGED <<db, now, lastOp, pre, sync, conns, worker, camp>>

\* ai_worker: _ai_queue.get() returns and asyncio.to_thread starts
\* ollama.chat for the request
WorkerGet ==
  /\ ai.cur = Null
  /\ ai.queue # <<>>
  /\ ai' = [ai EXCEPT !.cur = Head(ai.queue), !.queue = Tail(@), !.served = Append(@, Head(ai.queue)), !.calls = @ \cup {Head(ai.queue)}]
  /\ UNCHANGED <<db, now, lastOp, pre, sync, conns, worker, camp>>

\* ollama.chat of the request the worker waits for returns or raises: the
\* future gets the result or the exception and the worker goes on
ChatEnds(ok) ==
  /\ ai.cur # Null
  /\ ai.cur \in ai.calls
  /\ ai' = [ai EXCEPT !.calls = @ \ {ai.cur}, !.cur = Null,
                      !.future[ai.cur] = IF ok THEN "result" ELSE "exception",
                      !.set[ai.cur] = @ + 1]
  /\ UNCHANGED <<db, now, lastOp, pre, sync, conns, worker, camp>>

\* asyncio.wait_for runs into AI_TIMEOUT_SEC: the future gets the timeout
\* message and the worker goes on; the thread of asyncio.to_thread is not
\* stopped by the cancellation and ollama.chat goes on running in it
ChatTimeout ==
  /\ ai.cur # Null
  /\ ai.cur \in ai.calls
  /\ ai' = [ai EXCEPT !.cur = Null, !.future[ai.cur] = "timeout", !.set[ai.cur] = @ + 1]
  /\ UNCHANGED <<db, now, lastOp, pre, sync, conns, worker, camp>>

\* ollama.chat of a request the worker has given up on comes to its end in
\* its thread
AbandonedChatEnds(r) ==
  /\ r \in ai.calls
  /\ r # ai.cur
  /\ ai' = [ai EXCEPT !.calls = @ \ {r}]
  /\ UNCHANGED <<db, now, lastOp, pre, sync, conns, worker, camp>>

\* ------------------------------------------------- campaign_jobs (db.py,
\* teacher.py, teacher_dashboard/app.py)
Jobs == 1..MaxJobs

\* the bot's campaign_worker, the dashboard's worker thread and a request
\* of the run-due or create endpoint
Workers == {"bot", "dashboard", "endpoint"}

\* no job is stored and no worker is in its loop; claimed, refused and sent
\* hold the workers whose claim of the job succeeded, whose claim failed
\* and who sent its messages
NoJobs ==
  [status |-> [j \in Jobs |-> "none"],
   claimed |-> [j \in Jobs |-> {}], refused |-> [j \in Jobs |-> {}],
   sent |-> [j \in Jobs |-> {}],
   w |-> [x \in Workers |-> [pc |-> "idle", due |-> {}, job |-> Null]]]

\* an UPDATE that claims the job whatever its status
claim_campaign_job_Unguarded(c, j) ==
  c.status[j] # "none"

\* claim_campaign_job / _claim_campaign_job: rowcount > 0 of UPDATE ...
\* SET status = 'running' WHERE id = ? AND status = 'pending'
claim_campaign_job(c, j) ==
  c.status[j] = "pending"

\* create_campaign_job: INSERT with status 'pending'
CreateJob(j) ==
  /\ camp.status[j] = "none"
  /\ \A i \in Jobs : i < j => camp.status[i] # "none"
  /\ camp' = [camp EXCEPT !.status[j] = "pending"]
  /\ UNCHANGED <<db, now, lastOp, pre, sync, conns, worker, ai>>

\* get_due_campaign_jobs / _fetch_due_campaign_jobs: the worker reads the
\* pending jobs in a transaction of its own
FetchDue(x) ==
  /\ camp.w[x].pc = "idle"
  /\ \E j \in Jobs : camp.status[j] = "pending"
  /\ camp' = [camp EXCEPT !.w[x] = [pc |-> "loop", due |-> {j \in Jobs : camp.status[j] = "pending"}, job |-> Null]]
  /\ UNCHANGED <<db, now, lastOp, pre, sync, conns, worker, ai>>

\* the next job of the list is claimed; a worker whose claim fails goes on
\* to the job after it
ClaimJob(x) ==
  /\ camp.w[x].pc = "loop"
  /\ camp.w[x].due # {}
  /\ LET j == CHOOSE j \in camp.w[x].due : \A i \in camp.w[x].due : j <= i IN
     camp' = IF claim_campaign_job(camp, j)
             THEN [camp EXCEPT !.status[j] = "running", !.claimed[j] = @ \cup {x},
                               !.w[x] = [pc |-> "run", due |-> camp.w[x].due \ {j}, job |-> j]]
             ELSE [camp EXCEPT !.refused[j] = @ \cup {x},
                               !.w[x] = [pc |-> IF camp.w[x].due = {j} THEN "idle" ELSE "loop", due |-> camp.w[x].due \ {j}, job |-> Null]]
  /\ UNCHANGED <<db, now, lastOp, pre, sync, conns, worker, ai>>

\* the claimer sends the messages and completes the job, or fails it on an
\* exception
FinishJob(x, ok) ==
  /\ camp.w[x].pc = "run"
  /\ camp' = [camp EXCEPT !.status[camp.w[x].job] = IF ok THEN "completed" ELSE "failed",
                          !.sent[camp.w[x].job] = @ \cup {x},
                          !.w[x] = [pc |-> IF camp.w[x].due = {} THEN "idle" ELSE "loop", due |-> camp.w[x].due, job |-> Null]]
  /\ UNCHANGED <<db, now, lastOp, pre, sync, conns, worker, ai>>

\* ------------------------- two passes on two connections to one store
\* no pass is connected; base is the store the running passes started from
NoConns ==
  [lock |-> Null, base |-> EmptyDb, pass |-> [p \in Courses |-> [pc |-> "idle", saw |-> FALSE, call |-> <<>>]]]

\* a pass for course p connects and _upsert_school reads the school row
\* (a SELECT outside a transaction: it sees the committed store)
ConnectPass(p) ==
  /\ conns.pass[p].pc = "idle"
  /\ \E roster \in {<<Learner(1, CourseWork(p), Returned, NoSub, TRUE)>>, Class(p, TRUE)} :
       conns' = [conns EXCEPT !.pass[p] = [pc |-> "connected", saw |-> "School" \in db.schools, call |-> LiveCall(p, roster, FALSE, Null, Null, NoActive)],
                              !.base = IF \A q \in Courses : conns.pass[q].pc = "idle" THEN db ELSE @]
  /\ UNCHANGED <<db, now, lastOp, pre, sync, worker, ai, camp>>

\* the first write of the pass takes the write lock of the store. A pass
\* that read no school row inserts one: the insert fails on the unique
\* name when another pass has committed the school in between
AcquireLock(p) ==
  /\ conns.pass[p].pc = "connected"
  /\ conns.lock = Null
  /\ conns' = IF ~conns.pass[p].saw /\ "School" \in db.schools
              THEN [conns EXCEPT !.pass[p].pc = "failed"]
              ELSE [conns EXCEPT !.pass[p].pc = "writing", !.lock = p]
  /\ UNCHANGED <<db, now, lastOp, pre, sync, worker, ai, camp>>

\* the store is locked by the other pass for longer than the timeout of
\* sqlite3.connect: the write raises OperationalError
LockTimeout(p) ==
  /\ conns.pass[p].pc = "connected"
  /\ conns.lock \notin {Null, p}
  /\ conns' = [conns EXCEPT !.pass[p].pc = "failed"]
  /\ UNCHANGED <<db, now, lastOp, pre, sync, worker, ai, camp>>

\* the pass runs to its commit (or rolls back) and closes the connection
CommitPass(p) ==
  /\ conns.pass[p].pc = "writing"
  /\ With(sync_course_analysis_to_db(db, conns.pass[p].call.course, conns.pass[p].call.feed, "School", FALSE, Null, Null, NoActive, now),
          LAMBDA r :
            /\ db' = r.db
            /\ pre' = db
            /\ lastOp' = [kind |-> "live", args |-> conns.pass[p].call, res |-> [stats |-> r.stats, raised |-> r.raised, committed |-> r.committed], repeat |-> FALSE]
            /\ conns' = [conns EXCEPT !.pass[p].pc = IF r.raised THEN "failed" ELSE "done", !.lock = Null])
  /\ UNCHANGED <<now, sync, worker, ai, camp>>

\* both passes have ended: the connections are closed
ClosePasses(ops) ==
  /\ now <= MaxDay + ops
  /\ \A p \in Courses : conns.pass[p].pc \in {"done", "failed"}
  /\ conns' = [NoConns EXCEPT !.base = db]
  /\ now' = now + 1
  /\ UNCHANGED <<db, lastOp, pre, sync, worker, ai, camp>>

\* the calls of the summary specification: one course, whole feeds
SummaryLiveCalls ==
  {LiveCall(1, r, FALSE, Null, Null, NoActive) :
     r \in {<<Learner(1, CourseWork(1), first, NoSub, TRUE)>> :
              first \in {Returned, NoSub}}
           \cup {Class(1, TRUE)}}

SummaryReportCalls ==
  {[reports |-> <<ReportDoc(1, "Graded", <<7, 10>>, FALSE, TRUE)>>,
    dry_run |-> FALSE]}

\* a stored submission with the given score
StoredSubmission(sc) ==
  [status |-> IF sc = NoRaw THEN "Submitted" ELSE "Graded",
   score_raw |-> sc,
   score_points |-> IF sc = NoRaw THEN Null ELSE sc[1],
   score_max |-> IF sc = NoRaw THEN Null ELSE sc[2],
   score_pct |-> IF sc = NoRaw THEN Null ELSE Pct(sc[1], sc[2]),
   updated_at |-> 0, flagged_by_student |-> 0, flag_verified |-> 0]

\* a store holding course 1 with two enrolled students and two assignments
\* with the given maxima; student 2 has a submission of assignment 1,
\* student 1 has one or none
StoredCourse(m1, m2, sc2, own) ==
  [EmptyDb EXCEPT
     !.schools = {"School"},
     !.courses = Put(<<>>, 1, [name |-> "Course", school |-> "School"]),
     !.students = Put(Put(<<>>, 1, "Student"), 2, "Student"),
     !.enrollments = {<<1, 1>>, <<2, 1>>},
     !.assignments = Put(Put(<<>>, 1, [course |-> 1, title |-> "Quiz", max_score |-> m1, created_at |-> 0, is_active |-> 1]),
                         2, [course |-> 1, title |-> "Quiz", max_score |-> m2, created_at |-> 0, is_active |-> 1]),
     !.submissions = IF Len(own) = 0 THEN Put(<<>>, <<2, 1>>, StoredSubmission(sc2))
                     ELSE Put(Put(<<>>, <<2, 1>>, StoredSubmission(sc2)), <<1, 1>>, StoredSubmission(own[1]))]

StoredScores == {NoRaw, <<3, 5>>, <<7, 10>>}

Stores ==
  {StoredCourse(m1, m2, sc2, own) : m1 \in MaxPoints, m2 \in {Null, 10}, sc2 \in StoredScores, own \in {<<>>} \cup {<<sc>> : sc \in StoredScores}}

\* rebuild_summary runs on a store it finds
InitStored ==
  /\ db \in Stores
  /\ now = MaxDay + 1
  /\ lastOp = [kind |-> "init", args |-> <<>>, res |-> <<>>, repeat |-> FALSE]
  /\ pre = EmptyDb
  /\ sync = Idle
  /\ conns = NoConns
  /\ worker = WorkerOff
  /\ ai = NoRequests
  /\ camp = NoJobs

Init ==
  /\ db = EmptyDb
  /\ now = MaxDay + 1
  /\ lastOp = [kind |-> "init", args |-> <<>>, res |-> <<>>, repeat |-> FALSE]
  /\ pre = EmptyDb
  /\ sync = Idle
  /\ conns = NoConns
  /\ worker = WorkerOff
  /\ ai = NoRequests
  /\ camp = NoJobs

\* the reconciliation entry points
Next ==
  \/ LivePass(LiveCalls, SyncOps)
  \/ SyncReports(ReportCalls, SyncOps)
  \/ ImportToDb(ImportCalls, SyncOps)
  \/ SyncAllLearners(SyncAllCalls, SyncOps)

Spec == Init /\ [][Next]_vars

\* reconciliation, flags, summary reads and the repair worker on one course
NextSummary ==
  \/ LivePass(SummaryLiveCalls, SummaryOps)
  \/ SyncReports(SummaryReportCalls, SummaryOps)
  \/ FlagSubmission(SummaryOps)
  \/ VerifyFlag(SummaryOps)
  \/ ApiVerifyReport(SummaryOps)
  \/ GetSummary(SummaryOps)
  \/ RepairTick(SummaryOps)

SpecSummary == Init /\ [][NextSummary]_vars

\* passes over feeds that differ in the metadata of one assignment
NextMeta ==
  \/ LivePass(MetaLiveCalls, MetaOps)
  \/ SyncReports(MetaReportCalls, MetaOps)
  \/ RebuildSummary(MetaOps)
  \/ ImportToDb(MetaImportCalls, MetaOps)

SpecMeta == Init /\ [][NextMeta]_vars

\* summaries rebuilt over stored courses
NextStored ==
  \/ RebuildSummary(StoredOps)

SpecStored == InitStored /\ [][NextStored]_vars

\* the repair worker beside a pass; the event loop resumes the coroutine
\* after the handler and after the sleep
NextWorker ==
  \/ LivePass(SummaryLiveCalls, WorkerOps)
  \/ StartWorker
  \/ WorkerTick
  \/ WorkerReport
  \/ WorkerWake
  \/ Shutdown

SpecWorker ==
  Init /\ [][NextWorker]_vars /\ WF_vars(WorkerReport) /\ WF_vars(WorkerWake)

\* the entry points called under complete and incomplete setups
NextSetup ==
  \/ EnterLive(SetupOps)
  \/ EnterReports(SetupOps)
  \/ EnterAll(SetupOps)

SpecSetup == Init /\ [][NextSetup]_vars

\* report files parsed and synchronised
NextParse ==
  \/ ReportMain(ParseOps)

SpecParse == Init /\ [][NextParse]_vars

\* students asking the assistant and the worker of the queue
NextAi ==
  \/ \E r \in Requests : AskAi(r)
  \/ WorkerGet
  \/ \E ok \in BOOLEAN : ChatEnds(ok)
  \/ ChatTimeout
  \/ \E r \in Requests : AbandonedChatEnds(r)

SpecAi == Init /\ [][NextAi]_vars

\* campaign jobs created and the three workers racing for them
NextCampaign ==
  \/ \E j \in Jobs : CreateJob(j)
  \/ \E x \in Workers : FetchDue(x)
  \/ \E x \in Workers : ClaimJob(x)
  \/ \E x \in Workers, ok \in BOOLEAN : FinishJob(x, ok)

SpecCampaign == Init /\ [][NextCampaign]_vars

\* the pure functions of the passes applied to inputs of bounded sets
NextPure ==
  \/ MergeTitles(PureOps)
  \/ DeriveStatus(PureOps)
  \/ ParseScore(PureOps)

SpecPure == Init /\ [][NextPure]_vars

\* sync_all_learners observed call by call
NextFetch ==
  \/ StartSync(SyncAllCalls, FetchOps)
  \/ FetchCourse
  \/ FetchDone
  \/ UpstreamFails
  \/ OpenTx
  \/ CloseTx

SpecFetch == Init /\ [][NextFetch]_vars

\* passes for the two courses on concurrent connections
NextConc ==
  \/ \E p \in Courses : ConnectPass(p)
  \/ \E p \in Courses : AcquireLock(p)
  \/ \E p \in Courses : LockTimeout(p)
  \/ \E p \in Courses : CommitPass(p)
  \/ ClosePasses(ConcOps)

SpecConc == Init /\ [][NextConc]_vars

\* -------------------------------------------------------------- properties
\* the rows idempotence speaks of
Rows(d) ==
  [courses |-> d.courses, students |-> d.students,
   enrollments |-> d.enrollments, assignments |-> d.assignments,
   submissions |-> d.submissions]

\* C1: a pass run twice in a row with the identical feed changes no course,
\* student, enrollment, assignment or submission row the second time and
\* reports zero added and updated submissions and assignments
C1_Idempotent ==
  lastOp.repeat =>
    /\ Rows(db) = Rows(pre)
    /\ IF lastOp.kind = "import"
       THEN lastOp.res.stats.submissions = 0 /\ lastOp.res.stats.updated = 0
       ELSE /\ lastOp.res.stats.submissions_added = 0
            /\ lastOp.res.stats.submissions_updated = 0
            /\ lastOp.res.stats.assignments_added = 0
            /\ lastOp.res.stats.assignments_updated = 0

\* C2: a pass that raises leaves the store exactly as it found it
C2_Atomic ==
  lastOp.kind \in {"live", "reports"} /\ lastOp.res.raised => db = pre

\* a live pass raised on a non-empty store after it had inserted submissions
C2_Witness ==
  /\ lastOp.kind = "live"
  /\ lastOp.res.raised
  /\ lastOp.res.stats.submissions_added > 0
  /\ pre # EmptyDb

\* the courses of the last batch whose own feed holds no broken record
HealthyCourses ==
  IF lastOp.kind = "reports"
  THEN {lastOp.args.reports[i].course_lms_id :
          i \in {i \in 1..Len(lastOp.args.reports) :
                   \A j \in 1..Len(lastOp.args.reports[i].students) :
                      lastOp.args.reports[i].students[j].ok}}
  ELSE {lastOp.args.upstream[i].course.id :
          i \in {i \in 1..Len(lastOp.args.upstream) :
                   \A j \in 1..Len(lastOp.args.upstream[i].roster) :
                      lastOp.args.upstream[i].roster[j].ok}}

\* C3: when one course of a batch raises, every other course of the batch
\* is reconciled and committed (its audit row is in the store)
C3_BatchIsolation ==
  lastOp.kind \in {"reports", "sync_all"} /\ lastOp.res.raised =>
    \A c \in HealthyCourses :
       \E i \in (Len(pre.sync_log) + 1)..Len(db.sync_log) :
          db.sync_log[i].course = c

\* C4: a pass run with dry_run leaves every row of the store as it was
C4_DryRun ==
  lastOp.kind \in {"live", "reports", "import"} /\ lastOp.args.dry_run =>
    db = pre

\* a dry run of sync_reports on a non-empty store that executed inserts
C4_Witness ==
  /\ lastOp.kind = "reports"
  /\ lastOp.args.dry_run
  /\ lastOp.res.stats.submissions_added > 0
  /\ pre # EmptyDb

\* the stored assignments of the course of the last live pass whose id the
\* feed does not hold
AbsentFromFeed ==
  {a \in DOMAIN pre.assignments :
     /\ pre.assignments[a].course = lastOp.args.course.id
     /\ a \notin DOMAIN _build_assignment_map(lastOp.args.feed)}

InsideWindow(created, start_date, end_date) ==
  /\ (start_date # Null => created >= start_date)
  /\ (end_date # Null => created <= end_date)

\* the rule of C5 for one committed windowed pass
PruningRule ==
  /\ \A a \in AbsentFromFeed :
        (a \notin DOMAIN db.assignments)
          <=> InsideWindow(pre.assignments[a].created_at,
                           lastOp.args.start_date, lastOp.args.end_date)
  /\ \A a \in DOMAIN pre.assignments :
        a \in DOMAIN _build_assignment_map(lastOp.args.feed)
          => a \in DOMAIN db.assignments

C6_WindowedSyncKeepsOutside ==
  lastOp.kind = "sync_all" /\ lastOp.args.win.days # "all" =>
    \A a \in DOMAIN pre.assignments :
       ~InsideWindow(pre.assignments[a].created_at,
                     lastOp.res.window.start, lastOp.res.window.end)
         => a \in DOMAIN db.assignments

\* the submissions the last operation inserted or whose status, grade or
\* verification it changed
ChangedSubmissions ==
  {k \in DOMAIN db.submissions :
     \/ k \notin DOMAIN pre.submissions
     \/ TriggerFires(pre.submissions[k], db.submissions[k])}

SummaryKey(k) == <<k[1], db.assignments[k[2]].course>>

\* the totals of a summary row or of an aggregate, NULL read as 0
Totals(row) ==
  [f \in {"total_assigned", "total_submitted", "total_missing", "total_late",
          "total_graded", "avg_submitted_pct", "avg_all_pct", "points_earned",
          "points_possible"} |-> SafeNum(row[f])]

Dirty(k) ==
  /\ SummaryKey(k) \in DOMAIN db.summaries
  /\ db.summaries[SummaryKey(k)].needs_rebuild = 1

VerificationLeavesRebuilt ==
  lastOp.kind \in {"verify_flag", "api_verify"} =>
    \A k \in ChangedSubmissions :
       /\ SummaryKey(k) \in DOMAIN db.summaries
       /\ db.summaries[SummaryKey(k)].needs_rebuild = 0
       /\ Totals(db.summaries[SummaryKey(k)])
            = Totals(Aggregate(db, k[1], SummaryKey(k)[2]))

C8_ReadYourWrites ==
  /\ lastOp.kind = "get_summary"
  /\ lastOp.res.found
  /\ \E k \in DOMAIN db.submissions :
        SummaryKey(k) = <<lastOp.args.student, lastOp.args.course>>
  => Totals(lastOp.res.row)
       = Totals(Aggregate(db, lastOp.args.student, lastOp.args.course))

\* C9: a summary whose totals differ from the aggregation is one the next
\* read refreshes or the next repair tick selects
C9_StaleIsRepairable ==
  \A p \in DOMAIN db.summaries :
     Totals(db.summaries[p]) # Totals(Aggregate(db, p[1], p[2]))
       => _summary_needs_refresh(db, p[1], p[2]) \/ p \in DirtyPairs(db)

\* C10: a tick rebuilds every selected summary but the one whose rebuild
\* raised
C10_BatchTolerance ==
  lastOp.kind = "repair" =>
    \A i \in 1..Len(lastOp.res.selected) :
       i # lastOp.args.fault => lastOp.res.selected[i] \in lastOp.res.rebuilt

\* C11: a pass never leaves an assignment that had a max_score with a
\* smaller max_score or with none
C11_MaxScoreMonotone ==
  lastOp.kind \in {"live", "reports"} =>
    \A a \in (DOMAIN pre.assignments) \cap (DOMAIN db.assignments) :
       pre.assignments[a].max_score # Null =>
         /\ db.assignments[a].max_score # Null
         /\ db.assignments[a].max_score >= pre.assignments[a].max_score

\* the longer of two titles
Longer(a, b) == IF Len(a) > Len(b) THEN a ELSE b

Observed == lastOp.args

Derived == lastOp.res.derived

NoScore(d) == d.score_raw = NoRaw /\ d.score_points = Null /\ d.score_pct = Null

TurnedIn(cw) == cw.submission.state \in {"TURNED_IN", "RETURNED"}

\* C13: the Status Derivation table: no submission gives Missing; turned in,
\* not late, no grade gives Submitted without a score; turned in, late,
\* grade 8 of 10 gives Late with 8/10 and 80.00 percent; a grade of exactly
\* 0 gives Missing, late or not
C13_StatusDerivationTable ==
  lastOp.kind = "derive_status" =>
    /\ Observed.submission.state = "NONE" => Derived.status = "Missing"
    /\ (TurnedIn(Observed) /\ ~Observed.submission.late /\ Observed.submission.assignedGrade = Null) =>
         Derived.status = "Submitted" /\ NoScore(Derived)
    /\ (TurnedIn(Observed) /\ Observed.submission.late /\ Observed.submission.assignedGrade = 8 /\ Observed.maxPoints = 10) =>
         /\ Derived.status = "Late"
         /\ Derived.score_raw = <<8, 10>>
         /\ Derived.score_points = 8
         /\ Derived.score_pct = 8000
    /\ (Observed.submission.state # "NONE" /\ Observed.submission.assignedGrade = 0) =>
         Derived.status = "Missing"

\* a late submission graded 0 was derived, and so was the late 8 of 10
C13_Witness ==
  /\ lastOp.kind = "derive_status"
  /\ TurnedIn(Observed)
  /\ Observed.submission.late
  /\ \/ Observed.submission.assignedGrade = 0 /\ Derived.status = "Missing"
     \/ Observed.submission.assignedGrade = 8 /\ Observed.maxPoints = 10 /\ Derived.status = "Late"

\* C14: without a submission or without a grade the derivation returns
\* score_raw, score_points, score_max and score_pct all null, whatever the
\* max points of the coursework
C14_NoGradeAllScoreFieldsNull ==
  (lastOp.kind = "derive_status"
     /\ (Observed.submission.state = "NONE" \/ Observed.submission.assignedGrade = Null)) =>
    NoScore(Derived) /\ Derived.score_max = Null

\* C15: in every state of the store a Submission row with status Missing
\* carries no score (score_raw, score_points and score_pct are null)
C15_MissingHasNoScore ==
  \A k \in DOMAIN db.submissions :
     db.submissions[k].status = "Missing" => NoScore(db.submissions[k])

AllNull(sc) == sc.points = Null /\ sc.max = Null /\ sc.pct = Null

\* the token is "P/M" with numbers P and M, M not 0
WellFormedScore(raw) == Len(raw) = 2 /\ Bad \notin {raw[1], raw[2]} /\ raw[2] # 0

\* C16: parse_score of "P/M" with M not 0 returns P, M and P/M*100 rounded
\* to two decimals; for M = 0 and for every unparsable token it returns
\* three nulls
C16_ScoreParsing ==
  lastOp.kind = "parse_score" =>
    IF WellFormedScore(lastOp.args)
    THEN lastOp.res.parsed = [points |-> lastOp.args[1], max |-> lastOp.args[2], pct |-> Pct(lastOp.args[1], lastOp.args[2])]
    ELSE AllNull(lastOp.res.parsed)

\* the student's row for assignment a has the given status and score
Scored(s, a, status, points, max) ==
  /\ <<s, a>> \in DOMAIN db.submissions
  /\ db.submissions[<<s, a>>].status = status
  /\ db.submissions[<<s, a>>].score_points = points
  /\ db.submissions[<<s, a>>].score_max = max

\* the student has no submission for assignment a: no row, or a Missing
\* row without a score
Unsubmitted(s, a) ==
  \/ <<s, a>> \notin DOMAIN db.submissions
  \/ Scored(s, a, "Missing", Null, Null)

\* the course holds three assignments with max_score 10, 20 and unknown;
\* the student has 8/10 Submitted on the first, 15/20 Late on the second and
\* no submission for the third
ThreeAssignments(s, c) ==
  /\ Cardinality(CourseAssignments(db, c)) = 3
  /\ \E a1, a2, a3 \in CourseAssignments(db, c) :
       /\ db.assignments[a1].max_score = 10 /\ Scored(s, a1, "Submitted", 8, 10)
       /\ db.assignments[a2].max_score = 20 /\ Scored(s, a2, "Late", 15, 20)
       /\ db.assignments[a3].max_score = Null /\ Unsubmitted(s, a3)

\* C17: for three assignments (max 10, 20, unknown) and one student with
\* 8/10 Submitted, 15/20 Late and one assignment without submission,
\* rebuild_summary stores total_assigned 3, total_missing 1, total_late 1,
\* total_submitted at least 1 and avg_all_pct 76.67
C17_EndToEndAggregation ==
  (/\ lastOp.kind = "rebuild_summary"
   /\ ThreeAssignments(lastOp.args.student, lastOp.args.course)) =>
    /\ ~lastOp.res.raised
    /\ lastOp.res.row.total_assigned = 3
    /\ lastOp.res.row.total_missing = 1
    /\ lastOp.res.row.total_late = 1
    /\ lastOp.res.row.total_submitted >= 1
    /\ lastOp.res.row.avg_all_pct = 7667
    /\ db.summaries[<<lastOp.args.student, lastOp.args.course>>] = lastOp.res.row

\* the summary of the three assignments was rebuilt
C17_Witness ==
  /\ lastOp.kind = "rebuild_summary"
  /\ ThreeAssignments(lastOp.args.student, lastOp.args.course)
  /\ lastOp.res.row.points_earned = 23
  /\ lastOp.res.row.points_possible = 30

\* C18: while the connection of a course's pass is open no upstream call is
\* in flight and the analysis of that course is held in memory
C18_FetchBeforeTransaction ==
  sync.tx # Null =>
    /\ sync.upstream = {}
    /\ sync.heldFor = sync.tx
    /\ Len(sync.held) > 0

\* the connection for the second course is open: its analysis was fetched
\* after the pass of the first course had committed
C18_Witness ==
  /\ sync.tx = 2
  /\ sync.heldFor = 2
  /\ 1 \in DOMAIN db.courses
  /\ lastOp.kind = "live" /\ lastOp.res.committed

\* the totals stored after the summary row of (s, c) is deleted and
\* rebuild_summary recomputes it
DroppedAndRebuilt(s, c) ==
  Totals(rebuild_summary([db EXCEPT !.summaries = Drop(@, {<<s, c>>})], s, c, now).db.summaries[<<s, c>>])

\* the summary rows the last pass inserted or changed
WrittenSummaries ==
  {p \in DOMAIN db.summaries : p \notin DOMAIN pre.summaries \/ db.summaries[p] # pre.summaries[p]}

\* C19: dropping a summary row and recomputing it with rebuild_summary gives
\* the totals a read of the summary returns, and the summary rows a pass
\* writes carry the totals the aggregator computes from the rows of the pass
C19_SummaryIsDerived ==
  /\ \A p \in DOMAIN db.summaries :
        Totals(get_summary(db, p[1], p[2], now).row) = DroppedAndRebuilt(p[1], p[2])
  /\ (lastOp.kind \in {"live", "reports"} /\ lastOp.res.committed) =>
        \A p \in WrittenSummaries :
           Totals(db.summaries[p]) = Totals(Aggregate(db, p[1], p[2]))

\* C20: every Submission row references a Student row and an Assignment row
\* of the store, also after a pass that pruned assignments
C20_ReferentialIntegrity ==
  \A k \in DOMAIN db.submissions :
     k[1] \in DOMAIN db.students /\ k[2] \in DOMAIN db.assignments

\* a committed pass pruned an assignment for which a submission was stored
C20_Witness ==
  /\ lastOp.kind = "live"
  /\ lastOp.res.committed
  /\ lastOp.res.stats.assignments_deleted > 0
  /\ \E k \in DOMAIN pre.submissions : k[2] \notin DOMAIN db.assignments

\* the store after the pass of course p and then the pass of course q, run
\* one after the other from the store d
OneAfterTheOther(d, p, q) ==
  sync_course_analysis_to_db(
    sync_course_analysis_to_db(d, conns.pass[p].call.course, conns.pass[p].call.feed, "School", FALSE, Null, Null, NoActive, now).db,
    conns.pass[q].call.course, conns.pass[q].call.feed, "School", FALSE, Null, Null, NoActive, now).db

\* C21: two passes for different courses that run on concurrent
\* connections both complete, and the store they leave is the store of the
\* two passes run one after the other in some order
C21_ConcurrentPasses ==
  /\ \A p \in Courses : conns.pass[p].pc # "failed"
  /\ (\A p \in Courses : conns.pass[p].pc = "done") =>
        db \in {OneAfterTheOther(conns.base, 1, 2), OneAfterTheOther(conns.base, 2, 1)}

\* the fields of a submissions row a pass compares with the feed
Observable(row) ==
  <<row.status, row.score_raw, row.score_points, row.score_max, row.score_pct>>

\* the report feed of the last pass lists one assignment twice for a student
RowNamedTwice ==
  /\ lastOp.kind = "reports"
  /\ \E i \in 1..Len(lastOp.args.reports) :
       \E j \in 1..Len(lastOp.args.reports[i].students) :
          \E a, b \in 1..Len(lastOp.args.reports[i].students[j].lines) :
             /\ a # b
             /\ lastOp.args.reports[i].students[j].lines[a].lms_id = lastOp.args.reports[i].students[j].lines[b].lms_id

\* C22: a pass leaves a stored submission row as it was, updated_at
\* included, unless status, score_raw, score_points, score_max or score_pct
\* of the feed differ from the stored values
C22_NoOpLeavesSubmission ==
  (lastOp.kind \in {"live", "reports", "import"} /\ ~RowNamedTwice) =>
    \A k \in (DOMAIN pre.submissions) \cap (DOMAIN db.submissions) :
       Observable(db.submissions[k]) = Observable(pre.submissions[k]) =>
         db.submissions[k] = pre.submissions[k]

\* the assignments stored before and after the last pass
KeptAssignments == (DOMAIN pre.assignments) \cap (DOMAIN db.assignments)

\* C23: a pass replaces the stored title of an assignment only by a
\* strictly longer one
C23_TitlesOnlyGrow ==
  lastOp.kind \in {"live", "reports", "import"} =>
    \A a \in KeptAssignments :
       db.assignments[a].title # pre.assignments[a].title =>
         Len(db.assignments[a].title) > Len(pre.assignments[a].title)

\* C24: a pass leaves the created_at an assignment already has
C24_CreatedAtFillForward ==
  lastOp.kind \in {"live", "reports", "import"} =>
    \A a \in KeptAssignments :
       pre.assignments[a].created_at # Null =>
         db.assignments[a].created_at = pre.assignments[a].created_at

\* a live pass reported another creation time for a stored assignment and
\* the stored one was kept
C24_Witness ==
  /\ lastOp.kind = "live"
  /\ lastOp.res.committed
  /\ \E i \in 1..Len(lastOp.args.feed) :
       \E j \in 1..Len(lastOp.args.feed[i].coursework) :
          /\ lastOp.args.feed[i].coursework[j].id \in KeptAssignments
          /\ lastOp.args.feed[i].coursework[j].creationTime # Null
          /\ lastOp.args.feed[i].coursework[j].creationTime # pre.assignments[lastOp.args.feed[i].coursework[j].id].created_at
          /\ db.assignments[lastOp.args.feed[i].coursework[j].id].created_at = pre.assignments[lastOp.args.feed[i].coursework[j].id].created_at

\* C25: for every enrolled student and every assignment of the course,
\* rebuild_summary counts the work as missing exactly when get_missing_work
\* lists it, the work lists label it Missing and flag_submission accepts it
C25_OneMissingPredicate ==
  \A e \in db.enrollments :
     \A a \in CourseAssignments(db, e[2]) :
        /\ EffectivelyMissing(StudentRow(db, e[1], a)) <=> (a \in get_missing_work(db, e[1]))
        /\ EffectivelyMissing(StudentRow(db, e[1], a)) <=> (WorkStatus(db, e[1], a) = "Missing")
        /\ EffectivelyMissing(StudentRow(db, e[1], a)) <=> flag_submission(db, e[1], a).ok
\* C26: after rebuild_summary, points_possible of the written row is the sum
\* over all assignments of the course of: the assignment's own max_score when
\* set, otherwise the largest score_max of any student's submission of that
\* assignment, otherwise 0 - whether or not the student has a submission
C26_PossiblePointsFallback ==
  (lastOp.kind = "rebuild_summary" /\ ~lastOp.res.raised
   /\ CourseAssignments(db, lastOp.args.course) # {}) =>
    LET Observed26(a) == {db.submissions[k].score_max : k \in {k \in DOMAIN db.submissions : k[2] = a}} \ {Null}
        Fallback(a) ==
          IF db.assignments[a].max_score # Null THEN db.assignments[a].max_score
          ELSE IF Observed26(a) # {} THEN CHOOSE v \in Observed26(a) : \A w \in Observed26(a) : w <= v
          ELSE 0
    IN lastOp.res.row.points_possible = SumOver(CourseAssignments(db, lastOp.args.course), Fallback)

\* a rebuild for a student without submission of an assignment whose own
\* maximum is unset while another student's submission carries a score_max
C26_Witness ==
  /\ lastOp.kind = "rebuild_summary" /\ ~lastOp.res.raised
  /\ \E a \in CourseAssignments(db, lastOp.args.course) :
        /\ db.assignments[a].max_score = Null
        /\ <<lastOp.args.student, a>> \notin DOMAIN db.submissions
        /\ \E k \in DOMAIN db.submissions : k[2] = a /\ db.submissions[k].score_max # Null
        /\ lastOp.res.row.points_possible > 0

\* C27: one tick of the repair worker recomputes at most `limit` summaries,
\* selects only pairs whose summary row is missing or has needs_rebuild = 1,
\* leaves every other summary row as it was, and leaves each recomputed
\* summary with needs_rebuild = 0
C27_BoundedRepairTick ==
  (lastOp.kind = "repair") =>
    LET picked == {lastOp.res.selected[i] : i \in 1..Len(lastOp.res.selected)} IN
    /\ Cardinality(lastOp.res.rebuilt) <= lastOp.args.limit
    /\ lastOp.res.rebuilt \subseteq picked
    /\ \A p \in picked : p \notin DOMAIN pre.summaries \/ pre.summaries[p].needs_rebuild = 1
    /\ \A p \in (DOMAIN pre.summaries \cup DOMAIN db.summaries) \ lastOp.res.rebuilt :
          p \in DOMAIN pre.summaries /\ p \in DOMAIN db.summaries /\ db.summaries[p] = pre.summaries[p]
    /\ \A p \in lastOp.res.rebuilt : p \in DOMAIN db.summaries /\ db.summaries[p].needs_rebuild = 0

\* a tick with limit 1 that recomputed one summary while another dirty
\* summary row stayed as it was
C27_Witness ==
  /\ lastOp.kind = "repair" /\ lastOp.args.limit = 1
  /\ Cardinality(lastOp.res.rebuilt) = 1
  /\ \E p \in DOMAIN pre.summaries \ lastOp.res.rebuilt :
        pre.summaries[p].needs_rebuild = 1 /\ db.summaries[p] = pre.summaries[p]

\* C28: when a tick of summary_repair_worker raises, the worker reports the
\* error and goes on to the sleep, the next tick follows unless the process
\* shuts down, and the loop is left only by the shutdown
C28_RepairLoopNeverStops ==
  /\ [][(worker.pc = "report" /\ worker'.pc # "report") =>
          (worker'.pc = "cancelled" \/ (worker'.pc = "sleep" /\ worker'.reported))]_vars
  /\ [][(worker.pc \in Running /\ worker'.pc \notin Running) => worker'.pc = "cancelled"]_vars
  /\ (worker.pc = "report") ~> (worker.pc = "tick" \/ worker.pc = "cancelled")

\* the tick that follows a tick whose exception has been reported
C28_Witness ==
  worker.pc = "tick" /\ worker.failed /\ worker.reported

\* C29: when the database file, the schema definition or (for
\* sync_all_learners) the credentials are missing, sync_reports,
\* sync_course_analysis_to_db and sync_all_learners raise the fatal error
\* before any connection and any upstream call, whatever feed is passed
C29_SetupErrorsFirst ==
  (/\ lastOp.kind \in {"enter_live", "enter_reports", "enter_all"}
   /\ \/ ~lastOp.args.setup.db_file
      \/ ~lastOp.args.setup.schema_file
      \/ (lastOp.kind = "enter_all" /\ ~lastOp.args.setup.credentials)) =>
    /\ lastOp.res.fatal
    /\ ~lastOp.res.connected
    /\ ~lastOp.res.upstream
    /\ db = pre

\* C30: a row of a report is accepted only if its id is numeric and its
\* status is one of Missing, Submitted, Late, Graded, Flagged; any other row
\* is skipped and the document still parses; a document from which no
\* student is parsed fails in parse_course_report and sync_reports is not
\* called with it
Accepted(l) ==
  l.lms_id # Bad /\ l.status \in {"Missing", "Submitted", "Late", "Graded", "Flagged"}

HasStudentId(b) == b.sid # Bad

C30_TolerantNotEmpty ==
  (lastOp.kind = "main_reports") =>
    LET doc == lastOp.args.doc
        named == SelectSeq(doc.students, HasStudentId)
        got == lastOp.res.students
    IN /\ lastOp.res.parse_failed <=> (doc.course_lms_id = Null \/ named = <<>>)
       /\ lastOp.res.parse_failed => (~lastOp.res.reached /\ db = pre)
       /\ ~lastOp.res.parse_failed =>
            /\ lastOp.res.reached
            /\ Len(got) = Len(named)
            /\ \A j \in 1..Len(named) :
                  LET want == SelectSeq(named[j].lines, Accepted) IN
                  /\ got[j].lms_id = named[j].sid
                  /\ Len(got[j].assignments) = Len(want)
                  /\ \A k \in 1..Len(want) :
                        /\ got[j].assignments[k].lms_id = want[k].lms_id
                        /\ got[j].assignments[k].status = want[k].status

\* a document with one accepted and one skipped row that was parsed and
\* written
C30_Witness ==
  /\ lastOp.kind = "main_reports" /\ lastOp.res.reached
  /\ \E j \in 1..Len(lastOp.args.doc.students) :
        /\ HasStudentId(lastOp.args.doc.students[j])
        /\ \E k \in 1..Len(lastOp.args.doc.students[j].lines) : Accepted(lastOp.args.doc.students[j].lines[k])
        /\ \E k \in 1..Len(lastOp.args.doc.students[j].lines) : ~Accepted(lastOp.args.doc.students[j].lines[k])
  /\ db.submissions # pre.submissions

\* C31: no reconciliation pass deletes an enrollment, whether it prunes
\* assignments or its feed no longer holds the student, and a committed pass
\* inserts an enrollment row only for a (student, course) that had none
C31_EnrollmentsAppendOnly ==
  /\ lastOp.kind \in {"live", "reports", "import", "sync_all"} =>
       pre.enrollments \subseteq db.enrollments
  /\ (lastOp.kind \in {"live", "reports"} /\ lastOp.res.committed) =>
       lastOp.res.stats.enrollments_added = Cardinality(db.enrollments \ pre.enrollments)

\* a committed live pass that pruned an assignment and whose feed lacks a
\* student enrolled in its course
C31_Witness ==
  /\ lastOp.kind = "live" /\ lastOp.res.committed
  /\ lastOp.res.stats.assignments_deleted > 0
  /\ \E e \in pre.enrollments :
        /\ e[2] = lastOp.args.course.id
        /\ \A i \in 1..Len(lastOp.args.feed) : lastOp.args.feed[i].sid # e[1]
        /\ e \in db.enrollments

\* the SyncLog rows the last operation appended
NewLogRows ==
  SubSeq(db.sync_log, Len(pre.sync_log) + 1, Len(db.sync_log))

\* the submission rows the last operation inserted, and those it changed
InsertedSubmissions == (DOMAIN db.submissions) \ (DOMAIN pre.submissions)

ChangedKeptSubmissions ==
  {k \in (DOMAIN db.submissions) \cap (DOMAIN pre.submissions) : db.submissions[k] # pre.submissions[k]}

C33_SingleFlightQueue ==
  /\ Cardinality(ai.calls) <= 1
  /\ ai.served = SubSeq(ai.asked, 1, Len(ai.served))
  /\ \A r \in Requests : ai.set[r] <= 1
  /\ \A i \in 1..Len(ai.served) : ai.served[i] # ai.cur => ai.set[ai.served[i]] = 1

\* C34: verifying a (student, assignment) without pending flag
\* (flagged_by_student = 0 or flag_verified = 1) fails and leaves status,
\* flag_verified and flagged_by_student of the submission as they were, on
\* the bot path (verify_flag) as on the dashboard path (api_verify_report)
C34_VerifiedAtMostOnce ==
  (/\ lastOp.kind \in {"verify_flag", "api_verify"}
   /\ <<lastOp.args.student, lastOp.args.assignment>> \in DOMAIN pre.submissions
   /\ \/ pre.submissions[<<lastOp.args.student, lastOp.args.assignment>>].flagged_by_student = 0
      \/ pre.submissions[<<lastOp.args.student, lastOp.args.assignment>>].flag_verified = 1) =>
    /\ ~verify_flag(pre, lastOp.args.student, lastOp.args.assignment, lastOp.args.approved, now).ok
    /\ db.submissions[<<lastOp.args.student, lastOp.args.assignment>>].status = pre.submissions[<<lastOp.args.student, lastOp.args.assignment>>].status
    /\ db.submissions[<<lastOp.args.student, lastOp.args.assignment>>].flag_verified = pre.submissions[<<lastOp.args.student, lastOp.args.assignment>>].flag_verified
    /\ db.submissions[<<lastOp.args.student, lastOp.args.assignment>>].flagged_by_student = pre.submissions[<<lastOp.args.student, lastOp.args.assignment>>].flagged_by_student

\* C35: from the moment flag_submission returned true for a (student,
\* assignment) until the flag is verified, the submission is returned by
\* get_pending_flags and accepts add_submission_proof, whatever happened to
\* the row before
C35_FlagReachesQueue ==
  \A k \in DOMAIN db.submissions :
     db.submissions[k].flagged_by_student = 1 =>
       /\ k \in get_pending_flags(db)
       /\ add_submission_proof(db, k[1], k[2])

\* C36: of the workers racing for a pending job exactly one claims it, only
\* the claimer sends its messages, and the status of a job only moves
\* pending -> running -> completed or failed
C36_ClaimedAtMostOnce ==
  /\ [](\A j \in Jobs :
          /\ Cardinality(camp.claimed[j]) <= 1
          /\ camp.sent[j] \subseteq camp.claimed[j]
          /\ camp.refused[j] # {} => Cardinality(camp.claimed[j]) = 1)
  /\ [][\A j \in Jobs :
          camp'.status[j] # camp.status[j] =>
            <<camp.status[j], camp'.status[j]>> \in
              {<<"none", "pending">>, <<"pending", "running">>, <<"running", "completed">>, <<"running", "failed">>}]_vars

\* two workers had read the same pending job: one claimed and completed it,
\* the claim of the other failed
C36_Witness ==
  \E j \in Jobs :
     /\ camp.status[j] = "completed"
     /\ Cardinality(camp.claimed[j]) = 1
     /\ camp.refused[j] # {}

\* C37: a summary rebuilt over a course with assignments counts every
\* assignment once, as submitted or as missing: total_submitted +
\* total_missing = total_assigned, and total_late <= total_submitted
C37_SummaryCountsPartition ==
  (lastOp.kind = "rebuild_summary" /\ ~lastOp.res.raised /\ lastOp.res.row.total_assigned > 0)
    => /\ lastOp.res.row.total_submitted + lastOp.res.row.total_missing = lastOp.res.row.total_assigned
       /\ lastOp.res.row.total_late <= lastOp.res.row.total_submitted

\* the creation times a committed pass was given for assignment a
SuppliedCreatedAt(a) ==
  IF lastOp.kind = "live"
  THEN UNION {{lastOp.args.feed[i].coursework[j].creationTime :
                 j \in {j \in 1..Len(lastOp.args.feed[i].coursework) : lastOp.args.feed[i].coursework[j].id = a}} :
                i \in 1..Len(lastOp.args.feed)} \ {Null}
  ELSE UNION {UNION {{lastOp.args.reports[r].students[i].lines[j].created_at :
                        j \in {j \in 1..Len(lastOp.args.reports[r].students[i].lines) : lastOp.args.reports[r].students[i].lines[j].lms_id = a}} :
                       i \in 1..Len(lastOp.args.reports[r].students)} :
                r \in 1..Len(lastOp.args.reports)} \ {Null}

\* C38: an assignment stored without a creation time of its feed (it holds
\* the 1970 default) receives the creation time a later committed pass
\* supplies for it
C38_LateCreatedAtRecorded ==
  (lastOp.kind \in {"live", "reports"} /\ lastOp.res.committed) =>
    \A a \in KeptAssignments :
       (pre.assignments[a].created_at = 0 /\ SuppliedCreatedAt(a) # {}) =>
         db.assignments[a].created_at \in SuppliedCreatedAt(a)

====
